---- MODULE Spec2Model ----
(***************************************************************************)
(* A model of the SonarQube-to-Jira synchronisation service                *)
(* (src/src/service/sonar_to_jira_service.js, the helpers of                *)
(* src/src/utils/microservice.utils.js and                                 *)
(* src/src/functions/project_fetcher.js).                                  *)
(*                                                                         *)
(* Every asynchronous function of the service is a small state machine     *)
(* held in one record variable; a step of the machine is one stretch of    *)
(* code between two awaits on the network.  What the scanner and the       *)
(* tracker answer is chosen by \E in the step that awaits the answer.      *)
(*                                                                         *)
(*   cj       closeJiraTicket                       (SpecClose)            *)
(*   ck       checkMultipleIssuesResolved           (SpecCheck, SpecPass)  *)
(*   cr, trk  createJiraTickets and the tracker     (SpecCreate)           *)
(*   ps, trk  closeResolvedJiraTickets              (SpecPass, SpecPaging) *)
(*   jp       the ticket payload of createJiraTicket (SpecPayload)         *)
(*   fr       fetchWithRetry                        (SpecFetch)            *)
(*   sd       fetchSonarData                        (SpecSonar)            *)
(*   lu       lookupJiraUsers and its cache         (SpecLookup)           *)
(*   ev       entry and top-level handler of the    (SpecEntry)            *)
(*            three operations; the secrets cache   (SpecSecrets)          *)
(*   rl       the rate limiter                      (SpecLimiter,          *)
(*                                                   SpecWaiters)          *)
(*   hd       sonarToJiraHandler                    (SpecHandler)          *)
(*   pf       projectFetcherHandler                 (SpecFetcher)          *)
(***************************************************************************)
EXTENDS Integers, Sequences, FiniteSets, TLC

VARIABLES cj, ck, cr, trk, ps, jp, fr, sd, lu, ev, rl, hd, pf

vars == <<cj, ck, cr, trk, ps, jp, fr, sd, lu, ev, rl, hd, pf>>

-----------------------------------------------------------------------------
(* Helpers *)

Min(S) == CHOOSE x \in S : \A y \in S : x <= y

Range(s) == {s[i] : i \in 1..Len(s)}

\* All sequences over S of length at most n.
SeqsUpTo(S, n) == UNION {[1..m -> S] : m \in 0..n}

\* Array.prototype.slice(from, from + size), `from` counted from 0.
Slice(s, from, size) ==
    [j \in 1..(IF Len(s) - from < size THEN
                  (IF Len(s) - from < 0 THEN 0 ELSE Len(s) - from)
               ELSE size) |-> s[from + j]]

-----------------------------------------------------------------------------
(* fetchWithRetry: src/src/utils/microservice.utils.js lines 95-107 *)

\* An attempt's outcome: NetErr when fetch() rejects, else the HTTP status.
NetErr == 0

DefaultMaxRetries == 3

IsOk(status) == status >= 200 /\ status <= 299

AttemptOutcomes == {NetErr, 200, 404, 500}

AttemptSeqs == [1..DefaultMaxRetries -> AttemptOutcomes]

\* The loop `for (let i = 0; i < maxRetries; i++)`, from iteration i on.
\* outs[i+1] is what attempt i meets; waits collects the setTimeout delays.
\* kind "response": the function returned the response (status);
\* kind "throw": it threw, Error('HTTP <status>') or the network error
\* (status = NetErr); kind "undefined": the loop ended without a return.
RECURSIVE fetchLoop(_, _, _, _)
fetchLoop(outs, i, maxRetries, waits) ==
    IF i >= maxRetries
    THEN [kind |-> "undefined", status |-> NetErr, attempts |-> i, waits |-> waits]
    ELSE LET o == outs[i + 1] IN
         IF o # NetErr /\ IsOk(o)
         THEN [kind |-> "response", status |-> o, attempts |-> i + 1, waits |-> waits]
         ELSE IF i = maxRetries - 1
              \* non-ok: `throw new Error('HTTP ...')`, caught and re-thrown;
              \* network error: caught and re-thrown
              THEN [kind |-> "throw", status |-> o, attempts |-> i + 1, waits |-> waits]
              ELSE IF o = NetErr
                   \* the catch block waits 1000 * (i + 1) ms before the next attempt
                   THEN fetchLoop(outs, i + 1, maxRetries, Append(waits, 1000 * (i + 1)))
                   \* a non-ok response that is not the last falls out of the try
                   ELSE fetchLoop(outs, i + 1, maxRetries, waits)

fetchWithRetry(outs) == fetchLoop(outs, 0, DefaultMaxRetries, <<>>)

\* `for (let i = 0; i <= maxRetries; i++)`
fetchWithRetryOnceMore(outs, maxRetries) == fetchLoop(outs, 0, maxRetries + 1, <<>>)

\* fetchWithRetry(url, options, maxRetries)
fetchWithRetryUpTo(outs, maxRetries) == fetchLoop(outs, 0, maxRetries, <<>>)

\* The largest maxRetries a caller passes.
MaxRetriesArg == 3

\* What the attempts of one call would meet, one more than it can make.
CallOutcomes == [1..(MaxRetriesArg + 1) -> AttemptOutcomes]

FetchIdle ==
    [pc |-> "idle", maxRetries |-> 0, outs |-> <<>>,
     r |-> [kind |-> "none", status |-> NetErr, attempts |-> 0, waits |-> <<>>]]

Threw(r) == r.kind = "throw"

\* error.message === 'HTTP 404'
IsHttp404(r) == r.kind = "throw" /\ r.status = 404

-----------------------------------------------------------------------------
(* closeJiraTicket: src/src/service/sonar_to_jira_service.js lines 639-847 *)

MaxTransitions == 3

preferredTransitions == <<"wont do", "Done", "Closed", "Resolved", "Verified">>

TransitionNames == Range(preferredTransitions) \cup {"Other"}

\* What the tracker lists for a ticket: the transition at place p has id p.
TransitionLists ==
    {[p \in 1..Len(names) |-> [id |-> p, name |-> names[p]]] :
        names \in SeqsUpTo(TransitionNames, MaxTransitions)}

\* The body of the transitions response: a list, a body without a
\* `transitions` array (find is called on undefined), or no JSON at all.
TransitionPayloads ==
    {[kind |-> "list", transitions |-> ts] : ts \in TransitionLists}
    \cup {[kind |-> "missing", transitions |-> <<>>],
          [kind |-> "badjson", transitions |-> <<>>]}

NoTransition == [id |-> 0, name |-> ""]

\* transitionsData.transitions.find(t => t.name === preferredName)
findTransition(ts, preferredName) ==
    LET hits == {p \in 1..Len(ts) : ts[p].name = preferredName}
    IN  IF hits = {} THEN NoTransition ELSE ts[Min(hits)]

selectTransitionFirstListed(ts) ==
    LET hits == {p \in 1..Len(ts) : ts[p].name \in Range(preferredTransitions)}
    IN  IF hits = {} THEN NoTransition ELSE ts[Min(hits)]

selectTransitionOrFirst(ts) ==
    LET hits == {q \in 1..Len(preferredTransitions) :
                    findTransition(ts, preferredTransitions[q]) # NoTransition}
    IN  IF hits = {} THEN (IF Len(ts) > 0 THEN ts[1] ELSE NoTransition)
        ELSE findTransition(ts, preferredTransitions[Min(hits)])

\* for (const preferredName of preferredTransitions) { ... break; }
selectTransition(ts) ==
    LET hits == {q \in 1..Len(preferredTransitions) :
                    findTransition(ts, preferredTransitions[q]) # NoTransition}
    IN  IF hits = {} THEN NoTransition
        ELSE findTransition(ts, preferredTransitions[Min(hits)])

CloseIdle ==
    [pc |-> "idle", payload |-> [kind |-> "list", transitions |-> <<>>],
     sel |-> NoTransition, requests |-> <<>>, returned |-> FALSE, threw |-> FALSE]

\* One entry per fetchWithRetry call: what was asked, with which transition
\* id, how many HTTP attempts it took and whether it ended in an ok response.
Request(what, id, r) ==
    [what |-> what, id |-> id, attempts |-> r.attempts, status |-> r.status,
     ok |-> (r.kind = "response" /\ IsOk(r.status))]

\* The requests that ask the tracker for a transition (lines 739 and 764).
IsTransitionPost(q) == q.what \in {"POST transition+comment", "POST transition"}

closeCatchRethrows(c) == [c EXCEPT !.pc = "done", !.threw = TRUE]

\* catch (error) { logger.error(...); return false; }
closeCatch(c) == [c EXCEPT !.pc = "done", !.returned = FALSE]

\* Lines 643-689: GET the transitions and choose one.
closeFetch(c, r, payload) ==
    LET c1 == [c EXCEPT !.requests = Append(@, Request("GET transitions", 0, r)),
                        !.payload = payload]
    IN  IF Threw(r) THEN closeCatch(c1)
        ELSE IF ~IsOk(r.status) THEN closeCatch(c1)      \* throw new Error('HTTP error ...')
        ELSE IF payload.kind # "list" THEN closeCatch(c1) \* json() rejects / TypeError
        ELSE LET sel == selectTransition(payload.transitions) IN
             IF sel = NoTransition
             THEN [c1 EXCEPT !.pc = "done", !.returned = FALSE]
             ELSE [c1 EXCEPT !.pc = "apply", !.sel = sel]

\* Lines 738-846: POST the transition with the comment; when the response is
\* not ok, POST the transition alone and then the comment on its own.
closeApply(c, r1, r2, r3) ==
    LET id == c.sel.id
        c1 == [c EXCEPT !.requests = Append(@, Request("POST transition+comment", id, r1))]
        c2 == [c1 EXCEPT !.requests = Append(@, Request("POST transition", id, r2))]
        c3 == [c2 EXCEPT !.requests = Append(@, Request("POST comment", 0, r3))]
    IN  IF Threw(r1) THEN closeCatch(c1)
        ELSE IF IsOk(r1.status) THEN [c1 EXCEPT !.pc = "done", !.returned = TRUE]
        ELSE IF Threw(r2) THEN closeCatch(c2)
        ELSE IF IsOk(r2.status)
             \* the comment's failure is caught where it happens
             THEN [c3 EXCEPT !.pc = "done", !.returned = TRUE]
             ELSE [c2 EXCEPT !.pc = "done", !.returned = FALSE]

-----------------------------------------------------------------------------
(* checkMultipleIssuesResolved:                                            *)
(* src/src/service/sonar_to_jira_service.js lines 479-633                  *)

\* The finding identifiers of the scanner.
MaxSonarKeys == 2

SonarKeys == 1..MaxSonarKeys

\* How many identifiers one call is given.
MaxCheckLen == 3

\* maxBatchSize is 50 in the source (lines 154 and 483); the model takes it
\* small, so that a call with MaxCheckLen identifiers runs several batches.
maxBatchSize == 2

\* What an ok response of /api/issues/search carries: `issues` (the keys of
\* the issues found), no `issues` property, or a body that is no JSON.
IssueBodies ==
    {[kind |-> "issues", found |-> f] : f \in SUBSET SonarKeys}
    \cup {[kind |-> "noissues", found |-> {}], [kind |-> "badjson", found |-> {}]}

\* The outcomes of fetchWithRetry, over all the ways its attempts can go.
FetchResults == {fetchWithRetry(outs) : outs \in AttemptSeqs}

\* What an ok response of /api/hotspots/show carries: an `errors` list, a
\* hotspot (with its key) still to review or already reviewed, an object
\* with neither, or a body that is no JSON.
HotspotBodies == {"errors", "toReview", "reviewed", "empty", "badjson"}

CheckIdle ==
    [pc |-> "idle", keys |-> <<>>, status |-> <<>>, i |-> 0, todo |-> <<>>,
     searchedAbsent |-> {}, notFound |-> {}, lookupFailed |-> {},
     issueFound |-> {}, hotspotFound |-> {},
     result |-> <<>>, threw |-> FALSE]

markFoundResolved(status, found) ==
    [k \in (DOMAIN status) \cup found |-> IF k \in found THEN TRUE ELSE status[k]]

\* foundIssueKeys.forEach(key => { resolvedStatus[key] = false; })
markActive(status, found) ==
    [k \in (DOMAIN status) \cup found |-> IF k \in found THEN FALSE ELSE status[k]]

\* Every key of the batch is looked up as a hotspot.
SelectWholeBatch(batch, status) == batch

\* batch.filter(key => resolvedStatus[key] === true)
SelectResolved(batch, status) == SelectSeq(batch, LAMBDA k : status[k] = TRUE)

\* Lines 482-489: every key starts as resolved.
checkStart(keys) ==
    [CheckIdle EXCEPT !.pc = IF Len(keys) > 0 THEN "issues" ELSE "finish",
                      !.keys = keys,
                      !.status = [k \in Range(keys) |-> TRUE]]

\* The end of a batch (lines 594-598): on to the next one, or out of the loop.
checkNextBatch(c) ==
    IF c.i + maxBatchSize < Len(c.keys)
    THEN [c EXCEPT !.pc = "issues", !.i = c.i + maxBatchSize]
    ELSE [c EXCEPT !.pc = "finish", !.i = c.i + maxBatchSize]

\* Lines 493-530: the issue search of the batch that starts at c.i, and the
\* choice of the keys to look up as hotspots.
checkIssues(c, r, body) ==
    LET batch == Slice(c.keys, c.i, maxBatchSize)
        \* fetchWithRetry threw, or json() rejected: caught at line 524
        failed == Threw(r) \/ (IsOk(r.status) /\ body.kind = "badjson")
        found == IF ~failed /\ IsOk(r.status) THEN body.found ELSE {}
        status == markActive(c.status, found)
        todo == SelectResolved(batch, status)
        \* (history) the keys of the batch that a successful search did not return
        absent == IF ~failed /\ IsOk(r.status) THEN Range(batch) \ found ELSE {}
        \* (history) issueFound: the keys the issue searches returned
        c1 == [c EXCEPT !.status = status, !.todo = todo,
                        !.searchedAbsent = @ \cup absent,
                        !.issueFound = @ \cup found]
    IN  IF todo = <<>> THEN checkNextBatch(c1) ELSE [c1 EXCEPT !.pc = "hotspots"]

\* How lines 547-577 read the answer to a hotspot lookup.
hotspotAnswer(r, body) ==
    IF Threw(r) THEN (IF IsHttp404(r) THEN "notfound" ELSE "error")
    ELSE IF ~IsOk(r.status) THEN (IF r.status = 404 THEN "notfound" ELSE "error")
    ELSE IF body = "badjson" THEN "error"
    ELSE IF body = "errors" THEN "notfound"
    ELSE IF body \in {"toReview", "reviewed"} THEN "found"   \* hotspotData.key
    ELSE "other"

\* A lookup that fails marks the key active.
checkHotspotFailedActive(c, r, body) ==
    LET key == Head(c.todo)
        answer == hotspotAnswer(r, body)
        status == IF answer \in {"found", "error"} THEN markActive(c.status, {key})
                  ELSE c.status
        c1 == [c EXCEPT !.status = status, !.todo = Tail(c.todo)]
    IN  IF c1.todo = <<>> THEN checkNextBatch(c1) ELSE c1

\* Lines 536-581: the lookup of the first key still to check.
checkHotspot(c, r, body) ==
    LET key == Head(c.todo)
        answer == hotspotAnswer(r, body)
        status == IF answer = "found" THEN markActive(c.status, {key}) ELSE c.status
        \* (history) the keys whose lookup answered not-found, or failed
        \* otherwise, or found the hotspot
        c1 == [c EXCEPT !.status = status, !.todo = Tail(c.todo),
                        !.hotspotFound = IF answer = "found" THEN @ \cup {key} ELSE @,
                        !.notFound = IF answer = "notfound" THEN @ \cup {key} ELSE @,
                        !.lookupFailed = IF answer = "error" THEN @ \cup {key} ELSE @]
    IN  IF c1.todo = <<>> THEN checkNextBatch(c1) ELSE c1

\* fetchWithRetry when every attempt meets a rejected fetch.
Unreachable == fetchWithRetry([a \in 1..DefaultMaxRetries |-> NetErr])

\* Line 617: return resolvedStatus.
checkFinish(c) == [c EXCEPT !.pc = "done", !.result = c.status]

checkFallbackKeepsStatus(c) == [c EXCEPT !.pc = "done", !.threw = TRUE, !.result = c.status]

\* Lines 619-632: the catch of the outer try.
checkFallback(c) ==
    [c EXCEPT !.pc = "done", !.threw = TRUE,
              !.result = [k \in Range(c.keys) |-> FALSE]]

-----------------------------------------------------------------------------
(* createJiraTickets: src/src/service/sonar_to_jira_service.js lines 91-473 *)

\* How many issues and how many hotspots one run is given.
MaxIssues == 2

MaxHotspots == 1

\* How many tickets the tracker holds at most.
MaxTickets == 3

\* A create request that reached the tracker and was carried out, while its
\* response never arrived: to fetch() it is a network error.
Lost == -1

CreateOutcomes == {NetErr, Lost, 201, 500}

CreateAttemptSeqs == [1..DefaultMaxRetries -> CreateOutcomes]

\* What fetch() makes of the attempts.
ClientView(outs) == [a \in DOMAIN outs |-> IF outs[a] = Lost THEN NetErr ELSE outs[a]]

\* The tracker: the ticket with key t is trk[t] = [ref, field, open].  field
\* is the shape of its Sonar reference field (customfield_11972): "text"
\* (content[0].content[0].text is the identifier ref), "blank" (that text
\* is empty, blank or absent), "noparagraph" (content[0] has no content),
\* "nofield" (no field, or no content in it).  ref is 0 unless the field
\* is "text".
FieldShapes == {"text", "blank", "noparagraph", "nofield"}

\* Lines 318-329: the reference field of a ticket the service creates.
Ticket(ref) == [ref |-> ref, field |-> "text", open |-> TRUE]

\* The tickets the tracker creates while fetchWithRetry makes `attempts`
\* attempts for the finding `ref`: one for each attempt it carried out.
RECURSIVE createdBy(_, _, _)
createdBy(outs, attempts, ref) ==
    IF attempts = 0 THEN <<>>
    ELSE LET before == createdBy(outs, attempts - 1, ref) IN
         IF outs[attempts] = Lost \/ IsOk(outs[attempts])
         THEN Append(before, Ticket(ref)) ELSE before

\* The search of lines 163-179: the keys of the tickets that are not in a
\* terminal status and whose reference field matches a key of the batch.
searchOpenTickets(tickets, batch) ==
    SelectSeq([t \in 1..Len(tickets) |-> t],
              LAMBDA t : /\ tickets[t].open
                         /\ tickets[t].field = "text"
                         /\ tickets[t].ref \in Range(batch))

\* The reference text of a ticket that holds the identifier k among other
\* words.
Longer(k) == k + MaxSonarKeys

\* The JQL operator `~` of line 163: a text field matches a value that it
\* contains.
Contains(ref, k) == ref = k \/ ref = Longer(k)

\* The search of lines 163-179 on a tracker whose reference fields may hold
\* more than one identifier: the keys of the tickets that are not in a
\* terminal status and whose reference field contains a key of the batch.
searchMatchingTickets(tickets, batch) ==
    SelectSeq([t \in 1..Len(tickets) |-> t],
              LAMBDA t : /\ tickets[t].open
                         /\ tickets[t].field = "text"
                         /\ \E k \in Range(batch) : Contains(tickets[t].ref, k))

\* What an ok search response carries: the tickets, or a body that is no JSON.
SearchBodies == {"issues", "badjson"}

CreateIdle ==
    [pc |-> "idle", run |-> 0, issues |-> <<>>, hotspots |-> <<>>, i |-> 0,
     map |-> <<>>, existing |-> <<>>, created |-> <<>>, pos |-> 1,
     searches |-> <<>>, attempts |-> <<>>,
     prevIssues |-> <<>>, prevHotspots |-> <<>>, prevCreatedFor |-> {}]

\* allSonarKeys (lines 140-143)
allSonarKeys(c) == c.issues \o c.hotspots

\* Lines 190-207: the tickets of one search response go into the index.
RECURSIVE indexTickets(_, _, _)
indexTickets(c, tickets, found) ==
    IF found = <<>> THEN c
    ELSE LET t == Head(found)
             sonarKey == tickets[t].ref
             map == [k \in (DOMAIN c.map) \cup {sonarKey} |->
                        IF k = sonarKey THEN t ELSE c.map[k]]
             existing == IF t \in Range(c.existing) THEN c.existing
                         ELSE Append(c.existing, t)
         IN  IF tickets[t].field \in {"nofield", "noparagraph"}
             THEN indexTickets(c, tickets, Tail(found))     \* lines 194 and 196
             ELSE indexTickets([c EXCEPT !.map = map, !.existing = existing],
                               tickets, Tail(found))

\* Lines 91-149: a run starts; the index is built when there are keys.
createStart(c, issues, hotspots) ==
    [c EXCEPT !.pc = IF Len(issues) + Len(hotspots) > 0 THEN "index" ELSE "create",
              !.run = c.run + 1, !.issues = issues, !.hotspots = hotspots,
              !.i = 0, !.map = <<>>, !.existing = <<>>, !.created = <<>>,
              !.pos = 1, !.searches = <<>>, !.attempts = <<>>]

\* Lines 150-216: the search for one batch of keys.  The try of line 150
\* encloses the whole loop: a failed search ends the loop at line 213.
createIndexBatch(c, tickets, r, body) ==
    LET batch == Slice(allSonarKeys(c), c.i, maxBatchSize)
        failed == Threw(r) \/ ~IsOk(r.status) \/ body = "badjson"
        c1 == [c EXCEPT !.searches = Append(@, [i |-> c.i, ok |-> ~failed]),
                        !.i = c.i + maxBatchSize]
    IN  IF failed THEN [c1 EXCEPT !.pc = "create"]
        ELSE LET c2 == indexTickets(c1, tickets, searchOpenTickets(tickets, batch))
             IN  IF c2.i < Len(allSonarKeys(c)) THEN c2 ELSE [c2 EXCEPT !.pc = "create"]

\* createIndexBatch on the tracker of searchMatchingTickets.
createIndexMatching(c, tickets, r, body) ==
    LET batch == Slice(allSonarKeys(c), c.i, maxBatchSize)
        failed == Threw(r) \/ ~IsOk(r.status) \/ body = "badjson"
        c1 == [c EXCEPT !.searches = Append(@, [i |-> c.i, ok |-> ~failed]),
                        !.i = c.i + maxBatchSize]
    IN  IF failed THEN [c1 EXCEPT !.pc = "create"]
        ELSE LET c2 == indexTickets(c1, tickets, searchMatchingTickets(tickets, batch))
             IN  IF c2.i < Len(allSonarKeys(c)) THEN c2 ELSE [c2 EXCEPT !.pc = "create"]

checkIfTicketExistsNever(map, sonarKey) == 0

\* Lines 219-221: existingTicketsMap[sonarKey] || null (0 stands for null).
checkIfTicketExists(map, sonarKey) ==
    IF sonarKey \in DOMAIN map THEN map[sonarKey] ELSE 0

\* The loops of lines 416-447 go on to the next finding.
createNextItem(c) == [c EXCEPT !.pos = c.pos + 1]

createAbortOnFailure(c) == [c EXCEPT !.pos = Len(allSonarKeys(c)) + 1]

\* Lines 421-428 and 439-446: the catch around one createJiraTicket call.
createItemFailed(c) == createNextItem(c)

\* Lines 226-411, called from the loops of lines 416-447: the finding at
\* place c.pos (issues first, then hotspots).  newKey is the key the tracker
\* gave the ticket of the attempt that was answered ok.
createItem(c, r, newKey) ==
    LET sonarKey == allSonarKeys(c)[c.pos]
        itemType == IF c.pos <= Len(c.issues) THEN "issue" ELSE "hotspot"
    IN  IF checkIfTicketExists(c.map, sonarKey) # 0
        THEN createNextItem(c)                               \* line 235: return
        ELSE LET c1 == [c EXCEPT !.attempts =
                            Append(@, [pos |-> c.pos, type |-> itemType, key |-> sonarKey,
                                       ok |-> ~Threw(r) /\ IsOk(r.status),
                                       ticket |-> IF ~Threw(r) /\ IsOk(r.status)
                                                  THEN newKey ELSE 0])]
             IN  IF Threw(r) \/ ~IsOk(r.status)
                 THEN createItemFailed(c1)
                 ELSE createNextItem([c1 EXCEPT !.created = Append(@, newKey)])

\* Line 457: return { created: createdTickets, existing: existingTickets }.
createReturn(c) == [c EXCEPT !.pc = "done"]

-----------------------------------------------------------------------------
(* closeResolvedJiraTickets:                                               *)
(* src/src/service/sonar_to_jira_service.js lines 852-1154                 *)

\* How many open tickets with a reference field the tracker holds.
MaxPassTickets == 3

\* maxResults, the page size, is 100 in the source (line 887) and
\* maxConcurrent is 5 (line 1029); the model takes both small, so that
\* MaxPassTickets tickets make several pages and several groups.
maxResults == 2

maxConcurrent == 2

\* ticketsWithErrors of the result of lines 1014-1018, which has no such property.
Undefined == -1

\* The tickets the search of line 884 can return.
PassTickets ==
    [ref : SonarKeys, field : {"text"}, open : {TRUE}]
    \cup [ref : {0}, field : FieldShapes \ {"text"}, open : {TRUE}]

\* The tracker or the scanner answers every attempt of a request alike.
SteadyResults ==
    {fetchWithRetry([a \in 1..DefaultMaxRetries |-> o]) : o \in AttemptOutcomes}

PassIdle ==
    [pc |-> "idle", startAt |-> 0, allTickets |-> <<>>, keys |-> <<>>,
     map |-> <<>>, i |-> 0, tasks |-> <<>>,
     closedCount |-> 0, errorCount |-> 0, notResolvedCount |-> 0,
     closed |-> <<>>, errors |-> <<>>, notResolved |-> <<>>,
     closeCalls |-> {}, accepted |-> {}, pageFailed |-> FALSE,
     result |-> [ticketsChecked |-> 0, ticketsClosed |-> 0,
                 ticketsNotResolved |-> 0, ticketsWithErrors |-> 0]]

\* Lines 978-1008: the identifiers of the tickets whose field yields one.
extractSonarKeys(tickets) ==
    LET good == SelectSeq([t \in 1..Len(tickets) |-> t],
                          LAMBDA t : tickets[t].field = "text")
    IN  [j \in 1..Len(good) |-> tickets[good[j]].ref]

\* Lines 967-1026, up to the await of the batch check: the early return
\* when no ticket yields an identifier.
passAfterPaging(p) ==
    LET keys == extractSonarKeys([j \in 1..Len(p.allTickets) |-> p.allTickets[j].ticket])
    IN  IF keys = <<>>
        THEN [p EXCEPT !.pc = "done",
                       !.result = [ticketsChecked |-> Len(p.allTickets),
                                   ticketsClosed |-> 0, ticketsNotResolved |-> 0,
                                   ticketsWithErrors |-> Undefined]]
        ELSE [p EXCEPT !.pc = "checking", !.keys = keys]

passFetchPageRejects(p, r, body, page, total) ==
    IF Threw(r) \/ ~IsOk(r.status) \/ body # "issues"
    THEN [p EXCEPT !.pc = "rejected", !.pageFailed = TRUE]
    ELSE LET p1 == [p EXCEPT !.allTickets = p.allTickets \o page,
                             !.startAt = p.startAt + Len(page)]
         IN  IF p1.startAt < total THEN p1 ELSE passAfterPaging(p1)

\* Lines 895-965: one round of the pagination loop.  `page` holds the
\* tickets of the response (each with its tracker key), `total` its total.
\* pageFailed (history) records that a page fetch failed.
passFetchPage(p, r, body, page, total) ==
    IF Threw(r) \/ ~IsOk(r.status) \/ body # "issues"
    THEN IF Len(p.allTickets) > 0
         THEN passAfterPaging([p EXCEPT !.pageFailed = TRUE])        \* hasMore = false
         ELSE [p EXCEPT !.pc = "rejected", !.pageFailed = TRUE]      \* throw error
    ELSE LET p1 == [p EXCEPT !.allTickets = p.allTickets \o page,
                             !.startAt = p.startAt + Len(page)]
         IN  IF p1.startAt < total THEN p1 ELSE passAfterPaging(p1)

shouldCloseWhenKnown(map, sonarKey) == sonarKey \in DOMAIN map

\* Line 1058: isResolved === true.
shouldClose(map, sonarKey) == sonarKey \in DOMAIN map /\ map[sonarKey] = TRUE

passCountError(p, key) ==
    [p EXCEPT !.errorCount = @ + 1, !.errors = Append(@, key)]

\* Lines 1038-1060 and 1071-1097: a task of a group, up to its first await
\* (rateLimiter.wait()) or to its end.  j is its place among all tickets.
passTaskSync(p, j) ==
    LET ticket == p.allTickets[j].ticket
        key == p.allTickets[j].key
        done == [p EXCEPT !.tasks = Append(@, [at |-> j, pc |-> "done"])]
    IN  IF ticket.field # "text" THEN passCountError(done, key)
        ELSE IF shouldClose(p.map, ticket.ref)
        THEN [p EXCEPT !.tasks = Append(@, [at |-> j, pc |-> "wait"])]
        ELSE IF ticket.ref \in DOMAIN p.map /\ p.map[ticket.ref] = FALSE
        THEN [done EXCEPT !.notResolvedCount = @ + 1, !.notResolved = Append(@, key)]
        ELSE passCountError(done, key)

\* Lines 1036-1038: batch.map(async ...) starts the tasks of the group in
\* order, each running up to its first await.
RECURSIVE passStartTasks(_, _, _)
passStartTasks(p, j, last) ==
    IF j > last THEN p ELSE passStartTasks(passTaskSync(p, j), j + 1, last)

\* Every ticket left gets its task at once.
passStartAll(p) ==
    passStartTasks([p EXCEPT !.pc = "group", !.tasks = <<>>], p.i + 1, Len(p.allTickets))

passStartGroup(p) ==
    LET last == IF p.i + maxConcurrent < Len(p.allTickets)
                THEN p.i + maxConcurrent ELSE Len(p.allTickets)
    IN  passStartTasks([p EXCEPT !.pc = "group", !.tasks = <<>>], p.i + 1, last)

\* Lines 1138-1143.
passReturn(p) ==
    [p EXCEPT !.pc = "done", !.tasks = <<>>,
              !.result = [ticketsChecked |-> Len(p.allTickets),
                          ticketsClosed |-> p.closedCount,
                          ticketsNotResolved |-> p.notResolvedCount,
                          ticketsWithErrors |-> p.errorCount]]

\* Lines 1111-1117: Promise.all has settled; the next group, or the end.
passJoin(p) ==
    IF p.i + maxConcurrent < Len(p.allTickets)
    THEN passStartGroup([p EXCEPT !.i = p.i + maxConcurrent])
    ELSE passReturn(p)

\* closeJiraTicket returns true whenever it found a transition to apply.
closeJiraTicketTrueOnApply(r0, payload, r1) ==
    LET c0 == closeFetch([CloseIdle EXCEPT !.pc = "start"], r0, payload)
        c == IF c0.pc = "apply" THEN closeApply(c0, r1, r1, r1) ELSE c0
    IN  [returned |-> c0.pc = "apply",
         accepted |-> \E q \in Range(c.requests) : IsTransitionPost(q) /\ q.ok]

\* closeJiraTicket as one call: the transition fetch, then the apply.  The
\* pass sees what it returned; `accepted` tells whether the tracker took a
\* transition request of the call.
closeJiraTicket(r0, payload, r1) ==
    LET c0 == closeFetch([CloseIdle EXCEPT !.pc = "start"], r0, payload)
        c == IF c0.pc = "apply" THEN closeApply(c0, r1, r1, r1) ELSE c0
    IN  [returned |-> c.returned,
         accepted |-> \E q \in Range(c.requests) : IsTransitionPost(q) /\ q.ok]

\* The outcomes of closeJiraTicket, over the answers of the tracker.
CloseResults ==
    {closeJiraTicket(r0, payload, r1) :
        r0 \in SteadyResults, r1 \in SteadyResults,
        payload \in {q \in TransitionPayloads : Len(q.transitions) <= 1}}

\* Lines 1061-1070: closeJiraTicket has returned `c` to task n of the group.
passTaskClosed(p, n, c) ==
    LET key == p.allTickets[p.tasks[n].at].key
        p1 == [p EXCEPT !.tasks[n].pc = "done",
                        !.closeCalls = @ \cup {key},
                        !.accepted = IF c.accepted THEN @ \cup {key} ELSE @]
    IN  IF c.returned
        THEN [p1 EXCEPT !.closedCount = @ + 1, !.closed = Append(@, key)]
        ELSE passCountError(p1, key)

-----------------------------------------------------------------------------
(* The ticket payload of createJiraTicket:                                 *)
(* src/src/service/sonar_to_jira_service.js lines 226-330                  *)

\* A string is the sequence of its characters.  The message of a finding
\* is a run of "a", the name of its file a run of "f".
Repeat(ch, n) == [j \in 1..n |-> ch]

\* summary.length > 254 (line 252) and substring(0, 251) (line 253).
SummaryLimit == 254

SummaryKept == 251

\* The lengths of the messages: from 0 to MaxShortLen, and those that
\* bring the summary from SummaryLimit - LenWindow to SummaryLimit +
\* LenWindow characters and beyond.
MaxShortLen == 2

LenWindow == 3

MaxFileLen == 2

MessageLens ==
    (0..MaxShortLen)
    \cup ((SummaryLimit - LenWindow - 4 - MaxFileLen)..(SummaryLimit + LenWindow))

\* item.component: the parts between the colons, the file name last.
Components ==
    {<<Repeat("f", m)>> : m \in 0..MaxFileLen}
    \cup {<<Repeat("p", 1), Repeat("f", m)>> : m \in 0..MaxFileLen}

Severities == {"BLOCKER", "CRITICAL", "MAJOR", "MINOR", "INFO", "undefined"}

Probabilities == {"HIGH", "MEDIUM", "LOW", "undefined"}

ItemTypes == {"issue", "hotspot"}

\* item.component.split(':').pop()
fileName(component) == component[Len(component)]

summaryCutAtLimit(message, component) ==
    LET whole == message \o <<" ", "i", "n", " ">> \o fileName(component)
    IN  IF Len(whole) > SummaryLimit
        THEN SubSeq(whole, 1, SummaryLimit) \o <<".", ".", ".">>
        ELSE whole

\* Lines 250-254: `${item.message} in ${fileName}`, cut when too long.
summary(message, component) ==
    LET whole == message \o <<" ", "i", "n", " ">> \o fileName(component)
    IN  IF Len(whole) > SummaryLimit
        THEN SubSeq(whole, 1, SummaryKept) \o <<".", ".", ".">>
        ELSE whole

priorityNameHighOnly(itemType, severity, vulnerabilityProbability) ==
    IF itemType = "issue"
    THEN (IF severity \in {"BLOCKER", "CRITICAL"} THEN "Highest" ELSE "High")
    ELSE (IF vulnerabilityProbability = "HIGH" THEN "Highest" ELSE "High")

\* Lines 295-309.
priorityName(itemType, severity, vulnerabilityProbability) ==
    IF itemType = "issue"
    THEN (IF severity = "BLOCKER" \/ severity = "CRITICAL" THEN "Highest" ELSE "High")
    ELSE (IF vulnerabilityProbability = "HIGH" \/ vulnerabilityProbability = "MEDIUM"
          THEN "Highest" ELSE "High")

PayloadIdle ==
    [pc |-> "idle", itemType |-> "issue", severity |-> "undefined",
     vulnerabilityProbability |-> "undefined", message |-> <<>>,
     component |-> <<<<>>>>, summary |-> <<>>, priority |-> ""]

\* Lines 311-331: the fields of jiraPayload that depend on the finding.
jiraPayload(itemType, severity, vulnerabilityProbability, message, component) ==
    [pc |-> "built", itemType |-> itemType, severity |-> severity,
     vulnerabilityProbability |-> vulnerabilityProbability,
     message |-> message, component |-> component,
     summary |-> summary(message, component),
     priority |-> priorityName(itemType, severity, vulnerabilityProbability)]

-----------------------------------------------------------------------------
(* fetchSonarData: src/src/service/sonar_to_jira_service.js lines 17-81,   *)
(* and processSingleProject: src/src/utils/microservice.utils.js 120-221   *)

MaxProjectKeys == 2

ProjectKeys == 1..MaxProjectKeys

\* How many projects a caller lists.
MaxProvided == 1

\* envVars.SONARQUBE_PROJECT_KEY is not set.
NoKey == 0

Projects == [key : ProjectKeys, isChecked : BOOLEAN]

\* projectsConfig.projects: the projects 1..n, each enabled or not.
ConfigLists ==
    UNION {{[j \in 1..n |-> [key |-> j, isChecked |-> b[j]]] : b \in [1..n -> BOOLEAN]} :
              n \in 0..MaxProjectKeys}

ProvidedLists == SeqsUpTo(Projects, MaxProvided)

\* What an ok response of the scanner's search carries: findings, an empty
\* list, no such property, or a body that is no JSON.
FindingBodies == {"found", "empty", "noprop", "badjson"}

SonarIdle ==
    [pc |-> "idle", config |-> <<>>, fallbackKey |-> NoKey, projectList |-> <<>>,
     enabledProjects |-> <<>>, queue |-> <<>>, pos |-> 1,
     allIssues |-> <<>>, allHotspots |-> <<>>, requests |-> <<>>,
     result |-> [issues |-> <<>>, hotspots |-> <<>>]]

KeysOf(projects) == [j \in 1..Len(projects) |-> projects[j].key]

\* projects.filter(project => project.isChecked)
Checked(projects) == SelectSeq(projects, LAMBDA project : project.isChecked)

\* Line 74: return { issues: allIssues, hotspots: allHotspots }.
sonarReturn(s) ==
    [s EXCEPT !.pc = "done",
              !.result = [issues |-> s.allIssues, hotspots |-> s.allHotspots]]

fetchSonarStartFiltersList(s, projectList) ==
    LET enabledProjects == Checked(IF Len(projectList) > 0 THEN projectList ELSE s.config)
        s1 == [s EXCEPT !.projectList = projectList, !.enabledProjects = enabledProjects]
    IN  IF Len(enabledProjects) = 0
        THEN IF s.fallbackKey = NoKey
             THEN sonarReturn(s1)
             ELSE [s1 EXCEPT !.pc = "issues", !.queue = <<s.fallbackKey>>]
        ELSE [s1 EXCEPT !.pc = "issues", !.queue = KeysOf(enabledProjects)]

\* Lines 29-59: the projects to fetch.  queue holds the keys that go to
\* processSingleProject, in order.
fetchSonarStart(s, projectList) ==
    LET enabledProjects == IF Len(projectList) > 0 THEN projectList
                           ELSE Checked(s.config)
        s1 == [s EXCEPT !.projectList = projectList, !.enabledProjects = enabledProjects]
    IN  IF Len(enabledProjects) = 0
        THEN IF s.fallbackKey = NoKey
             THEN sonarReturn(s1)                              \* line 52
             ELSE [s1 EXCEPT !.pc = "issues", !.queue = <<s.fallbackKey>>]
        ELSE [s1 EXCEPT !.pc = "issues", !.queue = KeysOf(enabledProjects)]

\* The findings a response adds: one finding of the project when the body
\* carries findings.
FindingsOf(projectKey, what, r, body) ==
    IF ~Threw(r) /\ IsOk(r.status) /\ body = "found"
    THEN <<[project |-> projectKey, what |-> what]>>
    ELSE <<>>

\* (history) one entry per fetch of processSingleProject.
FetchEntry(projectKey, what, r, body) ==
    [project |-> projectKey, what |-> what,
     failed |-> (Threw(r) \/ ~IsOk(r.status) \/ body = "badjson"),
     found |-> FindingsOf(projectKey, what, r, body) # <<>>]

processIssuesAborts(s, r, body) ==
    IF Threw(r) \/ ~IsOk(r.status) \/ body = "badjson"
    THEN [s EXCEPT !.pc = "rejected",
                   !.requests = Append(@, FetchEntry(s.queue[s.pos], "issues", r, body))]
    ELSE [s EXCEPT !.pc = "hotspots",
                   !.allIssues = @ \o FindingsOf(s.queue[s.pos], "issues", r, body),
                   !.requests = Append(@, FetchEntry(s.queue[s.pos], "issues", r, body))]

\* processSingleProject, lines 141-176: the issues of the project at s.pos;
\* a failure is caught and logged.
processIssues(s, r, body) ==
    [s EXCEPT !.pc = "hotspots",
              !.allIssues = @ \o FindingsOf(s.queue[s.pos], "issues", r, body),
              !.requests = Append(@, FetchEntry(s.queue[s.pos], "issues", r, body))]

\* processSingleProject, lines 183-218: the hotspots of the project; then
\* the next project of the loop (lines 62-68), or the return.
processHotspots(s, r, body) ==
    LET s1 == [s EXCEPT !.allHotspots = @ \o FindingsOf(s.queue[s.pos], "hotspots", r, body),
                        !.requests = Append(@, FetchEntry(s.queue[s.pos], "hotspots", r, body)),
                        !.pos = s.pos + 1]
    IN  IF s1.pos > Len(s1.queue) THEN sonarReturn(s1) ELSE [s1 EXCEPT !.pc = "issues"]

-----------------------------------------------------------------------------
(* lookupJiraUsers and the user account cache (microservice.utils.js) *)

\* Projects listed in projectConfig.json (bound).
MaxProjects == 2

\* Users a search may match (bound).
MaxMatches == 2

\* Tracker accounts (bound).
MaxAccounts == 2

Emails == {"a@x", "b@x"}

\* What a project's assignee may hold: an email, the empty string "", a
\* string of blanks " ", nothing ("absent"), or a value that is not a string
\* and not falsy ("number").
Assignees == Emails \cup {"", " ", "absent", "number"}

AssigneeLists == SeqsUpTo(Assignees, MaxProjects)

\* Account ids are non-empty, so an entry of the cache is truthy.
AccountIds == 1..MaxAccounts

\* The body of a user search: a list of users (their account ids), JSON
\* null, or a body that does not parse.
UserBodies ==
    [kind : {"list"}, users : SeqsUpTo(AccountIds, MaxMatches)]
        \cup {[kind |-> "null", users |-> <<>>], [kind |-> "badjson", users |-> <<>>]}

Truthy(assignee) == assignee \notin {"", "absent"}

IsString(assignee) == assignee \notin {"absent", "number"}

\* assignee.trim()
Trimmed(assignee) == IF assignee = " " THEN "" ELSE assignee

\* p.assignee.trim() throws when the assignee is truthy and has no trim.
uniqueEmailsThrows(config) ==
    \E j \in 1..Len(config) : Truthy(config[j]) /\ ~IsString(config[j])

\* [...new Set(list)]: first occurrences, in order.
RECURSIVE Dedup(_)
Dedup(list) ==
    IF list = <<>> THEN <<>>
    ELSE LET front == Dedup(SubSeq(list, 1, Len(list) - 1))
             x == list[Len(list)]
         IN  IF x \in Range(front) THEN front ELSE Append(front, x)

uniqueEmails(config) ==
    Dedup(SelectSeq(config, LAMBDA a : Truthy(a) /\ Trimmed(a) # ""))

\* No search made yet (history).
NoSearch == [email |-> "", kind |-> "none", matches |-> 0, cachedBefore |-> FALSE]

\* userAccountCache is cache, a function from the cached emails to account
\* ids; it outlives the calls.  searched and last are history: the emails
\* searched by the current call and the last search made.
LookupIdle ==
    [pc |-> "idle", config |-> <<>>, uniqueEmails |-> <<>>, pos |-> 1,
     cache |-> <<>>, searched |-> <<>>, last |-> NoSearch]

\* if (userAccountCache[email])
Cached(cache, email) == email \in DOMAIN cache

\* The loop without its cache test: every email is searched.
lookupNextAlways(l) ==
    IF l.pos > Len(l.uniqueEmails) THEN [l EXCEPT !.pc = "done"]
    ELSE [l EXCEPT !.pc = "search"]

\* The head of the loop: emails already cached are passed over.
RECURSIVE lookupNext(_)
lookupNext(l) ==
    IF l.pos > Len(l.uniqueEmails) THEN [l EXCEPT !.pc = "done"]
    ELSE IF Cached(l.cache, l.uniqueEmails[l.pos])
         THEN lookupNext([l EXCEPT !.pos = l.pos + 1])
         ELSE [l EXCEPT !.pc = "search"]

lookupStart(l) ==
    IF uniqueEmailsThrows(l.config) THEN [l EXCEPT !.pc = "threw"]
    ELSE lookupNext([l EXCEPT !.uniqueEmails = uniqueEmails(l.config),
                              !.pos = 1, !.searched = <<>>])

\* The first match is taken whenever there is at least one.
lookupStore(cache, email, r, body) ==
    IF ~Threw(r) /\ body.kind = "list" /\ Len(body.users) > 0
    THEN (email :> body.users[1]) @@ cache
    ELSE cache

\* One turn of the loop for an email that is not cached: the search, and
\* what the answer leaves in the cache.
lookupEmail(l, r, body) ==
    LET email == l.uniqueEmails[l.pos]
    IN  lookupNext([l EXCEPT
            !.cache = lookupStore(l.cache, email, r, body),
            !.pos = l.pos + 1,
            !.searched = Append(@, email),
            !.last = [email |-> email,
                      kind |-> IF Threw(r) THEN "throw" ELSE body.kind,
                      matches |-> Len(body.users),
                      cachedBefore |-> Cached(l.cache, email)]])

\* The assignee createJiraTicket puts on a ticket of a project: the cached
\* account id, or none (0) when the project has no assignee or the cache
\* has no entry for it.
NoAssignee == 0

ticketAssignee(cache, assignee) ==
    IF Truthy(assignee) /\ Cached(cache, assignee) THEN cache[assignee] ELSE NoAssignee

-----------------------------------------------------------------------------
(* The entry and the top-level handler of fetchSonarData, createJiraTickets *)
(* and closeResolvedJiraTickets (sonar_to_jira_service.js)                  *)

requiredEnvVars ==
    <<"SONARQUBE_BASE_URL", "SONARQUBE_TOKEN", "JIRA_BASE_URL", "JIRA_USERNAME",
      "JIRA_API_TOKEN">>

\* A value of the configuration: set, the empty string, or not there.
EnvValues == {"set", "empty", "absent"}

EnvVarSets == [Range(requiredEnvVars) -> EnvValues]

AllSet == [v \in Range(requiredEnvVars) |-> "set"]

\* names.join(sep), as the sequence of its pieces.
RECURSIVE Join(_, _)
Join(names, sep) ==
    IF Len(names) = 0 THEN <<>>
    ELSE IF Len(names) = 1 THEN names
    ELSE <<names[1], sep>> \o Join(Tail(names), sep)

\* requiredVars.filter((varName) => !envVars[varName])
missingVars(envVars, requiredVars) ==
    SelectSeq(requiredVars, LAMBDA varName : envVars[varName] # "set")

\* The message reports the first missing name only.
validateFirstMissingOnly(envVars, requiredVars) ==
    LET missing == missingVars(envVars, requiredVars)
    IN  IF Len(missing) > 0
        THEN [threw |-> TRUE,
              message |-> <<"Missing required environment variables: ", missing[1]>>]
        ELSE [threw |-> FALSE, message |-> <<>>]

validateEnvironmentVariables(envVars, requiredVars) ==
    LET missing == missingVars(envVars, requiredVars)
    IN  IF Len(missing) > 0
        THEN [threw |-> TRUE,
              message |-> <<"Missing required environment variables: ">>
                              \o Join(missing, ", ")]
        ELSE [threw |-> FALSE, message |-> <<>>]

Operations == {"fetchSonarData", "createJiraTickets", "closeResolvedJiraTickets"}

\* The argument of createJiraTickets: an object with its two lists, nothing,
\* or an object without the lists.
SonarDataShapes == {"wellformed", "absent", "nolists"}

\* Requests one call sends after its entry (bound).
MaxEntryRequests == 2

\* One call of an operation: where it stands, what it was given, the
\* requests it has sent (scanner or tracker), and how it settled.  The
\* bodies of the three operations are the machines sd, cr and ps; here a
\* body is the requests it sends and the ticket keys it collects.
EntryIdle ==
    [pc |-> "idle", op |-> "", envVars |-> AllSet, secrets |-> TRUE,
     sonarData |-> "wellformed", config |-> <<>>, requests |-> <<>>,
     created |-> <<>>, existing |-> <<>>,
     outcome |-> "none", message |-> <<>>, payload |-> "none"]

entryReject(e, message) ==
    [e EXCEPT !.pc = "settled", !.outcome = "rejected", !.message = message]

\* The requests a body of the operation sends.
RequestKinds(op) ==
    CASE op = "fetchSonarData" -> {"scanner"}
      [] op = "createJiraTickets" -> {"tracker"}
      [] OTHER -> {"scanner", "tracker"}

\* From the call to the first await of the body.
entryStart(e, op, envVars, secrets, sonarData, config) ==
    LET e0 == [e EXCEPT !.op = op, !.envVars = envVars, !.secrets = secrets,
                        !.sonarData = IF op = "createJiraTickets" THEN sonarData
                                      ELSE "wellformed"]
        v == validateEnvironmentVariables(envVars, requiredEnvVars)
    IN  IF ~secrets THEN entryReject(e0, <<"Failed to get secrets">>)
        ELSE IF v.threw THEN entryReject(e0, v.message)
        ELSE IF op # "createJiraTickets" THEN [e0 EXCEPT !.pc = "body"]
        ELSE IF sonarData = "absent"
             THEN entryReject(e0, <<"sonarData is required for createJiraTickets">>)
        ELSE IF sonarData = "nolists"
             THEN entryReject(e0, <<"TypeError">>)
        ELSE [e0 EXCEPT !.pc = "lookup", !.config = config]

\* The top-level handler of createJiraTickets names createdTickets and
\* existingTickets, which are declared inside the try block and are out of
\* scope in the handler: building its result throws a ReferenceError.
createCatch(e) == entryReject(e, <<"ReferenceError: createdTickets is not defined">>)

\* await lookupJiraUsers(...): one search for each email, or a throw.
entryLookup(e) ==
    IF uniqueEmailsThrows(e.config) THEN createCatch(e)
    ELSE [e EXCEPT !.pc = "body",
                   !.requests = [j \in 1..Len(uniqueEmails(e.config)) |-> "tracker"]]

\* One request of the body; for createJiraTickets its answer may add a
\* ticket key to the created or to the existing keys.
entryRequest(e, kind, adds) ==
    [e EXCEPT !.requests = Append(@, kind),
              !.created = IF adds = "created" THEN Append(@, Len(e.requests) + 1) ELSE @,
              !.existing = IF adds = "existing" THEN Append(@, Len(e.requests) + 1) ELSE @]

entryReturn(e) ==
    [e EXCEPT !.pc = "settled", !.outcome = "resolved",
              !.payload = IF e.op = "createJiraTickets" THEN "created,existing"
                          ELSE "result"]

-----------------------------------------------------------------------------
(* The secrets cache of getEnvironmentVariables (sonar_to_jira_service.js,  *)
(* lines 1350-1486)                                                        *)

\* `let secretsCache = null` (line 1354).
NoSecrets == 0

\* The secret the manager holds changes over time; its versions.
MaxSecretVersions == 2

SecretVersions == 1..MaxSecretVersions

\* What getSecretsFromLocal returns.
LocalEnv == MaxSecretVersions + 1

\* How many calls of getEnvironmentVariables a process is followed for.
MaxSecretCalls == 4

\* What getSecretValue(...).promise() comes to: a SecretString that holds a
\* JSON object, a response without SecretString, a SecretString that is no
\* JSON, or a rejection.
ManagerAnswers == {"secret", "nostring", "badjson", "error"}

\* One process.  aws is isAWSEnvironment(); queried, before, kept, queries
\* and calls are history: whether the call at hand queried the manager,
\* the value a retrieval had stored and no clearSecretsCache had dropped
\* when the call started, that value now, and the numbers of queries and
\* of calls so far.
SecretsIdle ==
    [pc |-> "idle", aws |-> TRUE, secretsCache |-> NoSecrets,
     outcome |-> "none", value |-> NoSecrets, message |-> "",
     queried |-> FALSE, before |-> NoSecrets, kept |-> NoSecrets, queries |-> 0,
     calls |-> 0]

\* The cache is not looked at.
getSecretsAlwaysQueries(e) ==
    [e EXCEPT !.pc = "querying", !.queried = TRUE, !.queries = @ + 1,
              !.before = e.kept, !.outcome = "none", !.value = NoSecrets,
              !.message = ""]

\* Lines 1378-1391: getSecretsFromAWS up to its await.
getSecretsFromAWS(e) ==
    IF e.secretsCache # NoSecrets
    THEN [e EXCEPT !.pc = "settled", !.outcome = "resolved",
                   !.value = e.secretsCache, !.message = "",
                   !.queried = FALSE, !.before = e.kept]
    ELSE [e EXCEPT !.pc = "querying", !.queried = TRUE, !.queries = @ + 1,
                   !.before = e.kept, !.outcome = "none", !.value = NoSecrets,
                   !.message = ""]

\* Lines 1417-1424.
getSecretsFromLocal(e) ==
    [e EXCEPT !.pc = "settled", !.outcome = "resolved", !.value = LocalEnv,
              !.message = "", !.queried = FALSE, !.before = e.kept]

\* Lines 1431-1448.
getEnvironmentVariables(e) ==
    IF e.aws THEN getSecretsFromAWS(e) ELSE getSecretsFromLocal(e)

\* Lines 1393-1407: the manager has answered, with version v of the secret.
getSecretsAnswered(e, answer, v) ==
    IF answer = "secret"
    THEN [e EXCEPT !.pc = "settled", !.outcome = "resolved",
                   !.secretsCache = v, !.value = v, !.kept = v]
    \* `Failed to get secrets from AWS: ${error.message}`
    ELSE [e EXCEPT !.pc = "settled", !.outcome = "rejected", !.message = answer]

\* Lines 1472-1475.
clearSecretsCache(e) == [e EXCEPT !.secretsCache = NoSecrets, !.kept = NoSecrets]

-----------------------------------------------------------------------------
(* The rate limiter of createJiraTickets and closeResolvedJiraTickets, and  *)
(* the tracker requests that follow its passes (sonar_to_jira_service.js)   *)

\* rateLimiter.minInterval, in milliseconds.
minInterval == 100

\* The pause of fetchWithRetry after its failed attempt i (from 0).
retryPause(i) == 1000 * (i + 1)

\* Milliseconds a request may take to be answered.
Latencies == {10, 40, 150}

\* Time spans are followed up to minInterval; a longer span counts as
\* minInterval.
Capped(span) == IF span > minInterval THEN minInterval ELSE span

\* The places where a pass through the limiter is followed by requests.
LimitedCalls == {"existence search", "ticket creation", "page search", "close ticket"}

\* What follows the pass: closeJiraTicket sends two requests, the other
\* places one.
CallSteps(call) ==
    IF call = "close ticket"
    THEN <<"wait", "GET transitions", "POST transition+comment">>
    ELSE <<"wait", call>>

\* One limiter and the code running under it.  sinceLastCall is
\* Date.now() - lastCall, sinceRequest the time since the last request
\* started, both capped.  passed says whether the limiter was passed since
\* the last request started; requests, lastGap and lastOwnPass are history:
\* the number of requests started, the gap between the last two starts and
\* whether the last request had a pass of its own.
LimiterIdle ==
    [pc |-> "idle", call |-> "", i |-> 1, attempt |-> 0,
     sinceLastCall |-> minInterval, sinceRequest |-> minInterval,
     passed |-> FALSE, requests |-> 0, lastGap |-> minInterval,
     lastOwnPass |-> TRUE]

Elapse(l, span) ==
    [l EXCEPT !.sinceLastCall = Capped(@ + span), !.sinceRequest = Capped(@ + span)]

\* rateLimiter.wait(): sleeps for what is left of minInterval since
\* lastCall, then sets lastCall to now.
rateLimiterWait(l) ==
    LET slept == IF l.sinceLastCall < minInterval
                 THEN Elapse(l, minInterval - l.sinceLastCall) ELSE l
    IN  [slept EXCEPT !.sinceLastCall = 0, !.passed = TRUE, !.i = l.i + 1]

\* fetch(url, options): one attempt starts.
requestStart(l) ==
    [l EXCEPT !.pc = "inflight", !.requests = Min({@ + 1, 2}),
              !.lastGap = l.sinceRequest, !.lastOwnPass = l.passed,
              !.sinceRequest = 0, !.passed = FALSE]

\* The attempt is answered after span milliseconds.  An ok answer ends the
\* fetchWithRetry call; a failure of the last attempt is thrown and ends the
\* code under this pass; another failure pauses and goes round the loop.
requestAnswered(l, span, ok) ==
    LET l1 == Elapse(l, span)
    IN  IF ok
        THEN [l1 EXCEPT !.attempt = 0, !.i = l.i + 1,
                        !.pc = IF l.i + 1 > Len(CallSteps(l.call)) THEN "done" ELSE "step"]
        ELSE IF l.attempt = DefaultMaxRetries - 1
             THEN [l1 EXCEPT !.attempt = 0, !.pc = "done"]
             ELSE [Elapse(l1, retryPause(l.attempt)) EXCEPT
                       !.attempt = l.attempt + 1, !.pc = "step"]

\* The tasks of one group that call rateLimiter.wait() (line 1060): up to
\* maxConcurrent (5) in the source.
MaxWaiters == 3

\* Milliseconds a timer may fire after its delay has passed.
TimerLags == {0, 10}

\* One limiter under the tasks of a group.  sinceLastCall is
\* Date.now() - lastCall; tasks holds, for every task of the group in the
\* order of their calls, whether it sleeps inside wait(), runs
\* closeJiraTicket after it or is done, and what is left of its delay or of
\* the time closeJiraTicket takes; returns, sinceReturn and lastGap are
\* history: the returns from wait() in this group (counted up to 2), the
\* time since the last one and the time between the last two.  Time spans
\* are capped as above.
WaitersIdle ==
    [pc |-> "idle", sinceLastCall |-> minInterval, tasks |-> <<>>,
     returns |-> 0, sinceReturn |-> minInterval, lastGap |-> minInterval]

Sleeping(l) == {n \in 1..Len(l.tasks) : l.tasks[n].pc = "sleeping"}

Closing(l) == {n \in 1..Len(l.tasks) : l.tasks[n].pc = "closing"}

\* The tasks whose timer or whose closeJiraTicket ends next.
Due(l) ==
    {n \in Sleeping(l) \cup Closing(l) :
        \A m \in Sleeping(l) \cup Closing(l) : l.tasks[n].left <= l.tasks[m].left}

waitersElapse(l, span) ==
    [l EXCEPT !.sinceLastCall = Capped(@ + span),
              !.sinceReturn = Capped(@ + span),
              !.tasks = [n \in DOMAIN @ |->
                            [@[n] EXCEPT !.left = IF @ > span THEN @ - span ELSE 0]]]

\* Line 877, `this.lastCall = Date.now()`, and the return from wait().
waitReturn(l) ==
    [l EXCEPT !.sinceLastCall = 0,
              !.returns = Min({@ + 1, 2}),
              !.lastGap = IF l.returns = 0 THEN minInterval ELSE l.sinceReturn,
              !.sinceReturn = 0]

\* Lines 870-876: wait() up to its await.  It reads lastCall and either
\* starts a timer for what is left of minInterval or goes on to line 877
\* and to closeJiraTicket, which takes span milliseconds.
waitSync(l, span) ==
    IF l.sinceLastCall < minInterval
    THEN [l EXCEPT !.tasks = Append(@, [pc |-> "sleeping",
                                        left |-> minInterval - l.sinceLastCall])]
    ELSE waitReturn([l EXCEPT !.tasks = Append(@, [pc |-> "closing", left |-> span])])

\* batch.map(async ...) runs n tasks, one after the other, each up to its
\* first await, in one turn of the event loop.
RECURSIVE waitersStart(_, _, _)
waitersStart(l, n, span) ==
    IF n = 0 THEN l ELSE waitersStart(waitSync(l, span), n - 1, span)

\* The timer of task n fires, lag milliseconds late: the task goes on to
\* line 877 and to closeJiraTicket, which takes span milliseconds.
waitTimerFires(l, n, lag, span) ==
    LET l1 == waitersElapse(l, l.tasks[n].left + lag)
    IN  waitReturn([l1 EXCEPT !.tasks[n] = [pc |-> "closing", left |-> span]])

\* closeJiraTicket of task n returns.
waiterCloseEnds(l, n) ==
    [waitersElapse(l, l.tasks[n].left) EXCEPT !.tasks[n] = [pc |-> "done", left |-> 0]]

-----------------------------------------------------------------------------
(* sonarToJiraHandler and processBatchedProjects (sonar_to_jira_service.js) *)

\* More projects than this are processed in batches.
batchThreshold == 10

\* const batchSize = 5
batchSize == 5

\* Projects the project fetcher may return (bound).
MaxFetched == 12

\* Tickets one createJiraTickets call may report as created, and as
\* existing (bound).
MaxBatchTickets == 1

\* The project lists: project j of a list is j.
FetchedLists == {[j \in 1..n |-> j] : n \in 0..MaxFetched}

\* How the project fetcher is asked and answers: not asked at all (local
\* run), the invocation throws, its StatusCode is not 200, its payload has
\* another statusCode than 200, its body has no projects, or it has them.
FetcherAnswers == {"local", "throws", "badStatus", "errorPayload", "noProjects", "projects"}

NoResponse == [statusCode |-> 0, totalCreated |-> 0, totalExisting |-> 0]

\* log is history: for every batch taken up, its projects and what the two
\* calls made for it did.
HandlerIdle ==
    [pc |-> "idle", mode |-> "none", projectList |-> <<>>, i |-> 0,
     allCreated |-> 0, allExisting |-> 0, log |-> <<>>, response |-> NoResponse]

\* responsify({error, details}, 500)
handlerFailed(h) ==
    [h EXCEPT !.pc = "done",
              !.response = [statusCode |-> 500, totalCreated |-> 0, totalExisting |-> 0]]

\* formatResponse: responsify({message, summary}, 200)
formatResponse(h, created, existing) ==
    [h EXCEPT !.pc = "done",
              !.response = [statusCode |-> 200, totalCreated |-> created,
                            totalExisting |-> existing]]

\* Math.ceil(projectList.length / batchSize)
totalBatches(projectList) == (Len(projectList) + batchSize - 1) \div batchSize

\* From the call of the handler to its first fetchSonarData call.
handlerStart(h, envOk, answer, projects) ==
    LET projectList == IF answer = "projects" THEN projects ELSE <<>>
        h0 == [h EXCEPT !.projectList = projectList]
    IN  IF ~envOk THEN handlerFailed(h)
        ELSE IF answer = "projects" /\ Len(projectList) > batchThreshold
             THEN [h0 EXCEPT !.pc = "batchFetch", !.mode = "batched", !.i = 0]
             ELSE [h0 EXCEPT !.pc = "fetch", !.mode = "single"]

\* Step 2 of the handler: fetchSonarData(projectList).
handlerFetched(h, resolved) ==
    IF resolved THEN [h EXCEPT !.pc = "create"] ELSE handlerFailed(h)

\* Step 3 of the handler: createJiraTickets(sonarIssues).
handlerCreated(h, resolved, created, existing) ==
    IF resolved THEN formatResponse(h, created, existing) ELSE handlerFailed(h)

\* The end of a turn of the batch loop.
batchNext(h) ==
    IF h.i + 1 >= totalBatches(h.projectList)
    THEN formatResponse([h EXCEPT !.i = h.i + 1], h.allCreated, h.allExisting)
    ELSE [h EXCEPT !.i = h.i + 1, !.pc = "batchFetch"]

\* A failed batch ends the loop.
batchFailedStops(h) == formatResponse(h, h.allCreated, h.allExisting)

\* catch (batchError): logged, and on to the next batch.
batchFailed(h) == batchNext(h)

\* fetchSonarData(batch) for batch i.
batchFetched(h, resolved) ==
    LET batch == Slice(h.projectList, h.i * batchSize, batchSize)
        h1 == [h EXCEPT !.log = Append(@, [batch |-> batch,
                                           fetch |-> resolved, create |-> "none",
                                           created |-> 0, existing |-> 0])]
    IN  IF resolved THEN [h1 EXCEPT !.pc = "batchCreate"] ELSE batchFailed(h1)

\* createJiraTickets(sonarIssues) for batch i.
batchCreated(h, resolved, created, existing) ==
    LET h1 == [h EXCEPT !.log[Len(h.log)] =
                   [@ EXCEPT !.create = IF resolved THEN "resolved" ELSE "rejected",
                             !.created = IF resolved THEN created ELSE 0,
                             !.existing = IF resolved THEN existing ELSE 0]]
    IN  IF resolved
        THEN batchNext([h1 EXCEPT !.allCreated = @ + created,
                                  !.allExisting = @ + existing])
        ELSE batchFailed(h1)

-----------------------------------------------------------------------------
(* projectFetcherHandler (src/src/functions/project_fetcher.js) *)

\* Entries of projectsConfig.projects (bound).
MaxConfigured == 2

\* An entry of the configured list: a project object, whose key may be
\* empty (NoKey), or null.
ConfiguredEntries ==
    [shape : {"object"}, key : {NoKey} \cup ProjectKeys, isChecked : BOOLEAN]
        \cup {[shape |-> "null", key |-> NoKey, isChecked |-> FALSE]}

\* projectsConfig.projects: a list, not there, or something that is not a
\* list.
FetcherConfigs ==
    [kind : {"list"}, projects : SeqsUpTo(ConfiguredEntries, MaxConfigured)]
        \cup {[kind |-> "missing", projects |-> <<>>],
              [kind |-> "notArray", projects |-> <<>>]}

\* Before the handler has answered.
NoAnswer == [statusCode |-> 0, projects |-> <<>>, fallback |-> "absent"]

FetcherIdle ==
    [pc |-> "idle", config |-> [kind |-> "missing", projects |-> <<>>],
     envKey |-> NoKey, response |-> NoAnswer]

\* projects.filter(...) throws on a value with no filter and on a null entry.
configThrows(config) ==
    \/ config.kind = "notArray"
    \/ \E j \in 1..Len(config.projects) : config.projects[j].shape = "null"

\* The filter keeps every checked project, its key empty or not.
enabledProjectsAnyKey(projects) ==
    SelectSeq(projects, LAMBDA project : project.isChecked)

\* projects.filter(project => project.isChecked && project.key)
enabledProjects(projects) ==
    SelectSeq(projects, LAMBDA project : project.isChecked /\ project.key # NoKey)

\* The response of the handler; fallback is "absent" in the error response.
projectFetcherHandler(config, envKey) ==
    IF configThrows(config)
    THEN [statusCode |-> 500, projects |-> <<>>, fallback |-> "absent"]
    ELSE LET enabled == enabledProjects(config.projects)
         IN  IF Len(enabled) = 0
             THEN IF envKey # NoKey
                  THEN [statusCode |-> 200,
                        projects |-> <<[shape |-> "object", key |-> envKey,
                                        isChecked |-> TRUE]>>,
                        fallback |-> "true"]
                  ELSE [statusCode |-> 200, projects |-> <<>>, fallback |-> "false"]
             ELSE [statusCode |-> 200, projects |-> enabled, fallback |-> "false"]

-----------------------------------------------------------------------------
(* States of the machines that a specification leaves alone *)

TrackerIdle == <<>>


-----------------------------------------------------------------------------
(* SpecClose: calls of closeJiraTicket, one after another *)

InitClose ==
    /\ cj = [CloseIdle EXCEPT !.pc = "start"]
    /\ ck = CheckIdle
    /\ cr = CreateIdle
    /\ trk = TrackerIdle
    /\ ps = PassIdle
    /\ jp = PayloadIdle
    /\ fr = FetchIdle
    /\ sd = SonarIdle
    /\ lu = LookupIdle
    /\ ev = EntryIdle
    /\ rl = LimiterIdle
    /\ hd = HandlerIdle
    /\ pf = FetcherIdle

CloseFetchTransitions ==
    /\ cj.pc = "start"
    /\ \E outs \in AttemptSeqs, payload \in TransitionPayloads :
          cj' = closeFetch(cj, fetchWithRetry(outs), payload)
    /\ UNCHANGED <<ck, cr, trk, ps, jp, fr, sd, lu, ev, rl, hd, pf>>

CloseApplyTransition ==
    /\ cj.pc = "apply"
    /\ \E o1 \in AttemptSeqs :
          LET r1 == fetchWithRetry(o1) IN
          IF r1.kind = "response" /\ ~IsOk(r1.status)
          THEN \E o2, o3 \in AttemptSeqs :
                  cj' = closeApply(cj, r1, fetchWithRetry(o2), fetchWithRetry(o3))
          ELSE cj' = closeApply(cj, r1, r1, r1)
    /\ UNCHANGED <<ck, cr, trk, ps, jp, fr, sd, lu, ev, rl, hd, pf>>

\* The caller takes the result; the next call starts afresh.
CloseReturn ==
    /\ cj.pc = "done"
    /\ cj' = [CloseIdle EXCEPT !.pc = "start"]
    /\ UNCHANGED <<ck, cr, trk, ps, jp, fr, sd, lu, ev, rl, hd, pf>>

NextClose == CloseFetchTransitions \/ CloseApplyTransition \/ CloseReturn

SpecClose == InitClose /\ [][NextClose]_vars

-----------------------------------------------------------------------------
(* Claims about closeJiraTicket *)

\* C9: closeJiraTicket never throws: whatever its requests meet (HTTP error
\* or network error at the transition fetch or at the transition apply, a
\* malformed transitions body) it ends by returning a boolean, and it
\* returns false whenever the transition fetch ended in an error.
C9_CloseNeverThrows ==
    cj.pc = "done" =>
        /\ ~cj.threw
        /\ cj.returned \in BOOLEAN
        /\ (~cj.requests[1].ok => cj.returned = FALSE)
        /\ (cj.payload.kind # "list" => cj.returned = FALSE)

\* A call whose transition fetch met HTTP 500 on every attempt has returned false.
C9_Witness ==
    /\ cj.pc = "done"
    /\ cj.requests[1].status = 500
    /\ cj.requests[1].attempts = DefaultMaxRetries
    /\ cj.returned = FALSE

\* The place of a name in the fixed order; past the end when it is not in it.
PrefRank(name) ==
    LET at == {q \in 1..Len(preferredTransitions) : preferredTransitions[q] = name}
    IN  IF at = {} THEN Len(preferredTransitions) + 1 ELSE Min(at)

OfferedPreferred(ts) ==
    {p \in 1..Len(ts) : ts[p].name \in Range(preferredTransitions)}

\* C10: among the transitions the tracker offers, closeJiraTicket applies
\* the id of one whose name comes first in the order 'wont do', 'Done',
\* 'Closed', 'Resolved', 'Verified', wherever the tracker lists it; and
\* whenever some offered transition has a preferred name, one is applied.
C10_AppliesFirstPreferred ==
    LET ts == cj.payload.transitions IN
    /\ \A i \in 1..Len(cj.requests) :
          IsTransitionPost(cj.requests[i]) =>
             /\ cj.requests[i].id \in OfferedPreferred(ts)
             /\ \A p \in OfferedPreferred(ts) :
                   PrefRank(ts[cj.requests[i].id].name) <= PrefRank(ts[p].name)
    /\ (cj.pc = "done" /\ cj.requests[1].ok /\ cj.payload.kind = "list"
            /\ OfferedPreferred(ts) # {})
          => \E i \in 1..Len(cj.requests) : IsTransitionPost(cj.requests[i])

\* The tracker lists 'Verified' before 'Done'; the id of 'Done' was applied.
C10_Witness ==
    /\ cj.pc = "done"
    /\ Len(cj.payload.transitions) >= 2
    /\ cj.payload.transitions[1].name = "Verified"
    /\ cj.payload.transitions[2].name = "Done"
    /\ Len(cj.requests) = 2
    /\ cj.requests[2].id = 2
    /\ cj.returned = TRUE

\* C11: when no transition the tracker offers for the ticket has a name of
\* the preferred list, closeJiraTicket returns false and sends neither a
\* transition request nor a comment request: the transition fetch is its
\* only request.
C11_NoPreferredNoRequest ==
    (cj.pc = "done" /\ cj.requests[1].ok /\ cj.payload.kind = "list"
        /\ OfferedPreferred(cj.payload.transitions) = {})
      => /\ cj.returned = FALSE
         /\ ~cj.threw
         /\ Len(cj.requests) = 1
         /\ cj.requests[1].what = "GET transitions"

\* The tracker offered "Other" alone; the call has returned false.
C11_Witness ==
    /\ cj.pc = "done"
    /\ cj.requests[1].ok
    /\ cj.payload.kind = "list"
    /\ Len(cj.payload.transitions) = 1
    /\ cj.payload.transitions[1].name = "Other"
    /\ cj.returned = FALSE
    /\ Len(cj.requests) = 1

\* C12: when the request that carries the transition and the comment
\* fails, a request with the transition alone follows it; when that one
\* succeeds the comment is sent in a request of its own and the call
\* returns true, also when the comment request fails.
C12_TransitionOnlyAfterCombinedFails ==
    cj.pc = "done" =>
        \A i \in 1..Len(cj.requests) :
            (cj.requests[i].what = "POST transition+comment" /\ ~cj.requests[i].ok) =>
                /\ Len(cj.requests) > i
                /\ cj.requests[i + 1].what = "POST transition"
                /\ cj.requests[i + 1].ok =>
                      /\ Len(cj.requests) > i + 1
                      /\ cj.requests[i + 2].what = "POST comment"
                      /\ cj.returned = TRUE

-----------------------------------------------------------------------------
(* SpecCheck: calls of checkMultipleIssuesResolved, one after another *)

InitCheck ==
    /\ ck = CheckIdle
    /\ cj = CloseIdle
    /\ cr = CreateIdle
    /\ trk = TrackerIdle
    /\ ps = PassIdle
    /\ jp = PayloadIdle
    /\ fr = FetchIdle
    /\ sd = SonarIdle
    /\ lu = LookupIdle
    /\ ev = EntryIdle
    /\ rl = LimiterIdle
    /\ hd = HandlerIdle
    /\ pf = FetcherIdle

CheckCall ==
    /\ ck.pc = "idle"
    /\ \E keys \in SeqsUpTo(SonarKeys, MaxCheckLen) : ck' = checkStart(keys)
    /\ UNCHANGED <<cj, cr, trk, ps, jp, fr, sd, lu, ev, rl, hd, pf>>

CheckIssueSearch ==
    /\ ck.pc = "issues"
    /\ \E r \in FetchResults, body \in IssueBodies : ck' = checkIssues(ck, r, body)
    /\ UNCHANGED <<cj, cr, trk, ps, jp, fr, sd, lu, ev, rl, hd, pf>>

CheckHotspotShow ==
    /\ ck.pc = "hotspots"
    /\ \E r \in FetchResults, body \in HotspotBodies : ck' = checkHotspot(ck, r, body)
    /\ UNCHANGED <<cj, cr, trk, ps, jp, fr, sd, lu, ev, rl, hd, pf>>

CheckFinish ==
    /\ ck.pc = "finish"
    /\ ck' = checkFinish(ck)
    /\ UNCHANGED <<cj, cr, trk, ps, jp, fr, sd, lu, ev, rl, hd, pf>>

\* A statement of the outer try that no inner try covers throws (the calls
\* of lines 494, 584-591 and 601-615): the outer catch takes over.
CheckMachineryThrows ==
    /\ ck.pc \in {"issues", "hotspots", "finish"}
    /\ ck' = checkFallback(ck)
    /\ UNCHANGED <<cj, cr, trk, ps, jp, fr, sd, lu, ev, rl, hd, pf>>

CheckReturn ==
    /\ ck.pc = "done"
    /\ ck' = CheckIdle
    /\ UNCHANGED <<cj, cr, trk, ps, jp, fr, sd, lu, ev, rl, hd, pf>>

NextCheck ==
    \/ CheckCall
    \/ CheckIssueSearch
    \/ CheckHotspotShow
    \/ CheckFinish
    \/ CheckMachineryThrows
    \/ CheckReturn

SpecCheck == InitCheck /\ [][NextCheck]_vars

-----------------------------------------------------------------------------
(* Claims about checkMultipleIssuesResolved *)

\* The source system confirmed that k is absent: an issue search of a batch
\* holding k succeeded without returning k, and the lookup of k as a
\* hotspot answered not-found (an errors list or 404).
ConfirmedAbsent(c, k) == k \in c.searchedAbsent /\ k \in c.notFound

\* C2: an identifier is reported RESOLVED (true) only when the source
\* system confirmed its absence: the issue search of its batch succeeded
\* without returning it and its hotspot lookup answered not-found.
C2_ResolvedOnlyWhenConfirmed ==
    ck.pc = "done" =>
        \A k \in DOMAIN ck.result :
            ck.result[k] = TRUE => ConfirmedAbsent(ck, k)

\* C3: when an exception escapes the per-batch handling, the map returned
\* has exactly the requested identifiers as keys and every one is ACTIVE
\* (false), whatever had been determined before.
C3_FallbackAllActive ==
    (ck.pc = "done" /\ ck.threw) =>
        /\ DOMAIN ck.result = Range(ck.keys)
        /\ \A k \in DOMAIN ck.result : ck.result[k] = FALSE

\* The exception came after a key had been confirmed absent (still true in
\* resolvedStatus) and after the issue search had returned a key that was
\* not requested.
C3_Witness ==
    /\ ck.pc = "done"
    /\ ck.threw
    /\ \E k \in Range(ck.keys) : ConfirmedAbsent(ck, k) /\ ck.status[k] = TRUE
    /\ DOMAIN ck.status # Range(ck.keys)
    /\ \A k \in Range(ck.keys) : ck.result[k] = FALSE

SearchFailed(r, body) == Threw(r) \/ body.kind = "badjson"

C30_HotspotFlipsOnlyUnresolved ==
    (ck.pc = "hotspots" /\ ck.status[Head(ck.todo)] = TRUE) =>
        \A r \in FetchResults, body \in HotspotBodies :
            LET key == Head(ck.todo)
                after == checkHotspot(ck, r, body).status[key]
            IN  after = FALSE <=> (~Threw(r) /\ body = "toReview")

\* The batch that starts at ck.i, and its keys that the step leaves resolved.
C31_Batch == Slice(ck.keys, ck.i, maxBatchSize)

C31_StillResolved == SelectSeq(C31_Batch, LAMBDA k : ck'.status[k] = TRUE)

\* The step that ends a batch goes to the next batch, maxBatchSize further,
\* or leaves the loop when no identifier is left.
C31_BatchEnds ==
    /\ ck'.i = ck.i + maxBatchSize
    /\ ck'.pc = IF ck'.i < Len(ck.keys) THEN "issues" ELSE "finish"

\* C31: the identifiers are worked in consecutive batches of at most
\* maxBatchSize, one issue search per batch and one batch after another;
\* the hotspot lookups of a batch start after its issue search, for the
\* keys of the batch that the search left resolved, in order and one at a
\* time; the next batch starts after the last of them.
C31_BatchProtocol ==
    [][~ck'.threw =>
          /\ ck.pc = "issues" =>
                /\ ck.i % maxBatchSize = 0
                /\ ck.i < Len(ck.keys)
                /\ ck'.keys = ck.keys
                /\ IF C31_StillResolved # <<>>
                   THEN /\ ck'.pc = "hotspots"
                        /\ ck'.i = ck.i
                        /\ ck'.todo = C31_StillResolved
                   ELSE C31_BatchEnds
          /\ ck.pc = "hotspots" =>
                /\ ck.todo # <<>>
                /\ Range(ck.todo) \subseteq Range(C31_Batch)
                /\ ck'.keys = ck.keys
                /\ ck'.todo = Tail(ck.todo)
                /\ IF Tail(ck.todo) # <<>>
                   THEN ck'.pc = "hotspots" /\ ck'.i = ck.i
                   ELSE C31_BatchEnds
          /\ ck.pc = "finish" =>
                /\ ck.i % maxBatchSize = 0
                /\ ck.i >= Len(ck.keys)
                /\ ck.i < Len(ck.keys) + maxBatchSize]_vars

\* The second batch of three identifiers is at its hotspot lookup, after a
\* first batch whose issue search found one of its keys.
C31_Witness ==
    /\ ck.pc = "hotspots"
    /\ Len(ck.keys) = MaxCheckLen
    /\ ck.i = maxBatchSize
    /\ ck.todo = <<ck.keys[MaxCheckLen]>>
    /\ ck.issueFound # {}
    /\ ck.keys[1] # ck.keys[2]
    /\ ck.status[ck.keys[MaxCheckLen]] = TRUE

\* C39: the keys of the map that checkMultipleIssuesResolved returns are
\* the requested identifiers, no more and no fewer, whatever the scanner
\* answers.
C39_MapKeysAreRequested ==
    ck.pc = "done" => DOMAIN ck.result = Range(ck.keys)

-----------------------------------------------------------------------------
(* SpecCheckDown: calls of checkMultipleIssuesResolved while no request     *)
(* reaches the scanner (every fetch rejects)                                *)

CheckIssueSearchRejected ==
    /\ ck.pc = "issues"
    /\ \E body \in IssueBodies : ck' = checkIssues(ck, Unreachable, body)
    /\ UNCHANGED <<cj, cr, trk, ps, jp, fr, sd, lu, ev, rl, hd, pf>>

CheckHotspotShowRejected ==
    /\ ck.pc = "hotspots"
    /\ \E body \in HotspotBodies : ck' = checkHotspot(ck, Unreachable, body)
    /\ UNCHANGED <<cj, cr, trk, ps, jp, fr, sd, lu, ev, rl, hd, pf>>

NextCheckDown ==
    \/ CheckCall
    \/ CheckIssueSearchRejected
    \/ CheckHotspotShowRejected
    \/ CheckFinish
    \/ CheckMachineryThrows
    \/ CheckReturn

SpecCheckDown == InitCheck /\ [][NextCheckDown]_vars

\* C28: when every request of the call fails, the map returned marks every
\* requested identifier ACTIVE (false).
C28_AllFailedAllActive ==
    ck.pc = "done" =>
        \A k \in Range(ck.keys) : ck.result[k] = FALSE

-----------------------------------------------------------------------------
(* SpecCreate: a run of createJiraTickets against a tracker that holds at   *)
(* most one ticket, followed by a second run on the same finding set       *)

InitCreate ==
    /\ cr = CreateIdle
    /\ trk \in SeqsUpTo([ref : SonarKeys, field : {"text"}, open : BOOLEAN], 1)
    /\ cj = CloseIdle
    /\ ck = CheckIdle
    /\ ps = PassIdle
    /\ jp = PayloadIdle
    /\ fr = FetchIdle
    /\ sd = SonarIdle
    /\ lu = LookupIdle
    /\ ev = EntryIdle
    /\ rl = LimiterIdle
    /\ hd = HandlerIdle
    /\ pf = FetcherIdle

CreateCall ==
    /\ cr.pc = "idle"
    /\ cr.run = 0
    /\ \E issues \in SeqsUpTo(SonarKeys, MaxIssues),
          hotspots \in SeqsUpTo(SonarKeys, MaxHotspots) :
          cr' = createStart(cr, issues, hotspots)
    /\ UNCHANGED <<cj, ck, trk, ps, jp, fr, sd, lu, ev, rl, hd, pf>>

CreateIndexBatch ==
    /\ cr.pc = "index"
    /\ \E r \in FetchResults, body \in SearchBodies :
          cr' = createIndexBatch(cr, trk, r, body)
    /\ UNCHANGED <<cj, ck, trk, ps, jp, fr, sd, lu, ev, rl, hd, pf>>

CreateItem ==
    /\ cr.pc = "create"
    /\ cr.pos <= Len(allSonarKeys(cr))
    /\ IF checkIfTicketExists(cr.map, allSonarKeys(cr)[cr.pos]) # 0
       THEN /\ cr' = createItem(cr, [kind |-> "none"], 0)
            /\ UNCHANGED trk
       ELSE \E outs \in CreateAttemptSeqs :
               LET r == fetchWithRetry(ClientView(outs))
                   made == createdBy(outs, r.attempts, allSonarKeys(cr)[cr.pos])
               IN  /\ Len(trk) + Len(made) <= MaxTickets
                   /\ trk' = trk \o made
                   /\ cr' = createItem(cr, r, Len(trk) + Len(made))
    /\ UNCHANGED <<cj, ck, ps, jp, fr, sd, lu, ev, rl, hd, pf>>

CreateReturn ==
    /\ cr.pc = "create"
    /\ cr.pos > Len(allSonarKeys(cr))
    /\ cr' = createReturn(cr)
    /\ UNCHANGED <<cj, ck, trk, ps, jp, fr, sd, lu, ev, rl, hd, pf>>

\* The caller has the result; what the run was given and what it created
\* is remembered (history) for the run that follows.
CreateDone ==
    /\ cr.pc = "done"
    /\ cr' = [CreateIdle EXCEPT !.run = cr.run,
                                !.prevIssues = cr.issues, !.prevHotspots = cr.hotspots,
                                !.prevCreatedFor = {trk[t].ref : t \in Range(cr.created)}]
    /\ UNCHANGED <<cj, ck, trk, ps, jp, fr, sd, lu, ev, rl, hd, pf>>

\* The service is run once more, on the finding set of the run before.
CreateCallAgain ==
    /\ cr.pc = "idle"
    /\ cr.run = 1
    /\ cr' = createStart(cr, cr.prevIssues, cr.prevHotspots)
    /\ UNCHANGED <<cj, ck, trk, ps, jp, fr, sd, lu, ev, rl, hd, pf>>

NextCreate ==
    \/ CreateCall
    \/ CreateIndexBatch
    \/ CreateItem
    \/ CreateReturn
    \/ CreateDone
    \/ CreateCallAgain

SpecCreate == InitCreate /\ [][NextCreate]_vars

-----------------------------------------------------------------------------
(* Claims about createJiraTickets *)

OpenTicketsFor(k) ==
    {t \in 1..Len(trk) : trk[t].open /\ trk[t].field = "text" /\ trk[t].ref = k}

\* C4: after any sequence of createJiraTickets runs the tracker holds at
\* most one open ticket per finding identifier.
C4_OneOpenTicketPerFinding ==
    \A k \in SonarKeys : Cardinality(OpenTicketsFor(k)) <= 1

\* The create requests made so far in this run for the identifier k.
CreateRequestsFor(k) == {a \in 1..Len(cr.attempts) : cr.attempts[a].key = k}

\* C5: a second run on the same finding set creates no second ticket:
\* every identifier for which the first run created a ticket is found by
\* the second run's index and gets no create request.
C5_SecondRunSkipsCreated ==
    (cr.run = 2 /\ cr.pc \in {"create", "done"}) =>
        \A k \in cr.prevCreatedFor :
            /\ k \in DOMAIN cr.map
            /\ CreateRequestsFor(k) = {}

Batches(n) == (n + maxBatchSize - 1) \div maxBatchSize

\* C7: a failed search for one batch costs the index the entries of that
\* batch only: the searches for all later batches are still issued.
C7_LaterBatchesSearched ==
    cr.pc \in {"create", "done"} =>
        Len(cr.searches) = Batches(Len(allSonarKeys(cr)))

\* The places (issues first, then hotspots) of the findings before place
\* `upto` that are not in the index.
PlacesNotIndexed(upto) ==
    SelectSeq([p \in 1..(upto - 1) |-> p],
              LAMBDA p : allSonarKeys(cr)[p] \notin DOMAIN cr.map)

-----------------------------------------------------------------------------
(* SpecIndex: a run of createJiraTickets against a tracker whose ticket may *)
(* hold, in its reference field, an identifier among other words            *)

InitIndex ==
    /\ cr = CreateIdle
    /\ trk \in SeqsUpTo([ref : SonarKeys \cup {Longer(k) : k \in SonarKeys},
                         field : {"text"}, open : BOOLEAN], 1)
    /\ cj = CloseIdle
    /\ ck = CheckIdle
    /\ ps = PassIdle
    /\ jp = PayloadIdle
    /\ fr = FetchIdle
    /\ sd = SonarIdle
    /\ lu = LookupIdle
    /\ ev = EntryIdle
    /\ rl = LimiterIdle
    /\ hd = HandlerIdle
    /\ pf = FetcherIdle

IndexBatchMatching ==
    /\ cr.pc = "index"
    /\ \E r \in FetchResults, body \in SearchBodies :
          cr' = createIndexMatching(cr, trk, r, body)
    /\ UNCHANGED <<cj, ck, trk, ps, jp, fr, sd, lu, ev, rl, hd, pf>>

NextIndex ==
    \/ CreateCall
    \/ IndexBatchMatching
    \/ CreateItem
    \/ CreateReturn
    \/ CreateDone

SpecIndex == InitIndex /\ [][NextIndex]_vars

-----------------------------------------------------------------------------
(* Claims about the `existing` list of createJiraTickets *)

\* C35: every ticket key of the `existing` list that createJiraTickets
\* returns belongs to a finding of the input that was skipped because its
\* identifier was in the index; the list has no duplicates and no ticket
\* whose reference identifier is not an identifier of the input.
C35_ExistingOnlyInputFindings ==
    cr.pc = "done" =>
        /\ \A t \in Range(cr.existing) :
              /\ trk[t].ref \in Range(allSonarKeys(cr))
              /\ checkIfTicketExists(cr.map, trk[t].ref) # 0
              /\ \A a \in Range(cr.attempts) : a.key # trk[t].ref
        /\ \A m, n \in 1..Len(cr.existing) : m # n => cr.existing[m] # cr.existing[n]

-----------------------------------------------------------------------------
(* SpecPass: one pass of closeResolvedJiraTickets over the tracker's tickets *)

InitPass ==
    /\ ps = PassIdle
    /\ trk \in SeqsUpTo(PassTickets, MaxPassTickets)
    /\ cj = CloseIdle
    /\ ck = CheckIdle
    /\ cr = CreateIdle
    /\ jp = PayloadIdle
    /\ fr = FetchIdle
    /\ sd = SonarIdle
    /\ lu = LookupIdle
    /\ ev = EntryIdle
    /\ rl = LimiterIdle
    /\ hd = HandlerIdle
    /\ pf = FetcherIdle

PassCall ==
    /\ ps.pc = "idle"
    /\ ps' = [ps EXCEPT !.pc = "paging"]
    /\ UNCHANGED <<cj, ck, cr, trk, jp, fr, sd, lu, ev, rl, hd, pf>>

\* The tracker answers a page request with the open tickets from startAt
\* on, at most maxResults of them, and with their number as the total.
PassFetchPage ==
    /\ ps.pc = "paging"
    /\ LET open == SelectSeq([t \in 1..Len(trk) |-> t], LAMBDA t : trk[t].open)
           page == [j \in 1..Len(Slice(open, ps.startAt, maxResults)) |->
                       [key |-> Slice(open, ps.startAt, maxResults)[j],
                        ticket |-> trk[Slice(open, ps.startAt, maxResults)[j]]]]
       IN  \E r \in SteadyResults, body \in SearchBodies :
              ps' = passFetchPage(ps, r, body, page, Len(open))
    /\ UNCHANGED <<cj, ck, cr, trk, jp, fr, sd, lu, ev, rl, hd, pf>>

\* Line 1025: checkMultipleIssuesResolved is called with the identifiers.
PassCheckCall ==
    /\ ps.pc = "checking"
    /\ ck.pc = "idle"
    /\ ck' = checkStart(ps.keys)
    /\ UNCHANGED <<cj, cr, trk, ps, jp, fr, sd, lu, ev, rl, hd, pf>>

\* Lines 1025-1038: the map is returned; the first group of tasks starts.
PassCheckResolved ==
    /\ ps.pc = "checking"
    /\ ck.pc = "finish"
    /\ ps' = passStartGroup([ps EXCEPT !.map = checkFinish(ck).result])
    /\ ck' = CheckIdle
    /\ UNCHANGED <<cj, cr, trk, jp, fr, sd, lu, ev, rl, hd, pf>>

\* rateLimiter.wait() lets task n go on (line 1060).
PassTaskWaited ==
    /\ ps.pc = "group"
    /\ \E n \in 1..Len(ps.tasks) :
          /\ ps.tasks[n].pc = "wait"
          /\ ps' = [ps EXCEPT !.tasks[n].pc = "closing"]
    /\ UNCHANGED <<cj, ck, cr, trk, jp, fr, sd, lu, ev, rl, hd, pf>>

\* closeJiraTicket runs for the ticket of task n; a transition the tracker
\* accepts closes the ticket.
PassTaskClose ==
    /\ ps.pc = "group"
    /\ \E n \in 1..Len(ps.tasks) :
          /\ ps.tasks[n].pc = "closing"
          /\ \E c \in CloseResults :
                LET key == ps.allTickets[ps.tasks[n].at].key
                IN  /\ ps' = passTaskClosed(ps, n, c)
                    /\ trk' = IF c.accepted
                              THEN [trk EXCEPT ![key].open = FALSE] ELSE trk
    /\ UNCHANGED <<cj, ck, cr, jp, fr, sd, lu, ev, rl, hd, pf>>

PassGroupJoin ==
    /\ ps.pc = "group"
    /\ \A n \in 1..Len(ps.tasks) : ps.tasks[n].pc = "done"
    /\ ps' = passJoin(ps)
    /\ UNCHANGED <<cj, ck, cr, trk, jp, fr, sd, lu, ev, rl, hd, pf>>

NextPass ==
    \/ PassCall
    \/ PassFetchPage
    \/ PassCheckCall
    \/ CheckIssueSearch
    \/ CheckHotspotShow
    \/ PassCheckResolved
    \/ PassTaskWaited
    \/ PassTaskClose
    \/ PassGroupJoin

SpecPass == InitPass /\ [][NextPass]_vars

-----------------------------------------------------------------------------
(* Claims about closeResolvedJiraTickets *)

\* The tracker keys of the fetched tickets whose identifier has the value v
\* in the resolution map.
FetchedWith(v) ==
    {ps.allTickets[j].key : j \in
        {j \in 1..Len(ps.allTickets) :
            /\ ps.allTickets[j].ticket.field = "text"
            /\ ps.allTickets[j].ticket.ref \in DOMAIN ps.map
            /\ ps.map[ps.allTickets[j].ticket.ref] = v}}

FetchedAbsent ==
    {ps.allTickets[j].key : j \in
        {j \in 1..Len(ps.allTickets) :
            /\ ps.allTickets[j].ticket.field = "text"
            /\ ps.allTickets[j].ticket.ref \notin DOMAIN ps.map}}

\* C1: in a pass, closeJiraTicket is invoked (and a transition requested)
\* for a ticket only if its finding identifier maps to resolved = true; a
\* ticket whose identifier maps to false is never transitioned and is
\* counted as not resolved; one whose identifier is absent from the map is
\* never transitioned and is counted as an error.
C1_ClosedOnlyWhenResolved ==
    /\ ps.closeCalls \subseteq FetchedWith(TRUE)
    /\ ps.accepted \subseteq ps.closeCalls
    /\ (ps.pc = "done" /\ ps.keys # <<>>) =>
          /\ FetchedWith(FALSE) \subseteq Range(ps.notResolved)
          /\ ps.result.ticketsNotResolved = Cardinality(FetchedWith(FALSE))
          /\ FetchedAbsent \subseteq Range(ps.errors)
          /\ FetchedWith(TRUE) = ps.closeCalls

\* A pass has ended that closed one ticket and left one whose finding is
\* still active.
C1_Witness ==
    /\ ps.pc = "done"
    /\ ps.result.ticketsClosed >= 1
    /\ ps.result.ticketsNotResolved >= 1
    /\ ps.accepted # {}
    /\ FetchedWith(FALSE) # {}

\* C13: when a page fetch fails (request error, HTTP error or malformed
\* body) after at least one ticket was retrieved, pagination stops and the
\* tickets retrieved so far are still checked and processed, each of them
\* counted in the result; when it fails with no ticket retrieved, the
\* operation rejects and neither the resolution check nor a closure is
\* attempted.
C13_PageFailureKeepsFetched ==
    /\ ps.pc = "rejected" =>
          /\ ps.pageFailed
          /\ ps.allTickets = <<>>
          /\ ck.pc = "idle"
          /\ ps.map = <<>>
          /\ ps.closeCalls = {}
    /\ (ps.pageFailed /\ ps.allTickets = <<>>) => ps.pc = "rejected"
    /\ (ps.pageFailed /\ ps.allTickets # <<>>) =>
          /\ ps.pc \in {"checking", "group", "done"}
          /\ ps.pc = "done" =>
                /\ ps.result.ticketsChecked = Len(ps.allTickets)
                /\ ps.keys # <<>> =>
                      Len(ps.closed) + Len(ps.notResolved) + Len(ps.errors)
                          = Len(ps.allTickets)

\* The second page failed; the pass went on with the tickets of the first
\* page and closed one of them.
C13_Witness ==
    /\ ps.pc = "done"
    /\ ps.pageFailed
    /\ Len(ps.allTickets) = maxResults
    /\ ps.result.ticketsClosed >= 1
    /\ ps.result.ticketsChecked = maxResults

\* The tracker keys of the fetched tickets whose reference field is empty,
\* missing or malformed.
FetchedWithoutKey ==
    {ps.allTickets[j].key : j \in
        {j \in 1..Len(ps.allTickets) : ps.allTickets[j].ticket.field # "text"}}

\* C14: in the result of every pass that returns, ticketsWithErrors is a
\* number, at least the number of fetched tickets whose reference field is
\* empty, missing or malformed, and none of those tickets is transitioned;
\* also when no fetched ticket yields an identifier.
C14_BadFieldsCountedAsErrors ==
    /\ ps.closeCalls \cap FetchedWithoutKey = {}
    /\ ps.pc = "done" =>
          /\ ps.result.ticketsWithErrors # Undefined
          /\ ps.result.ticketsWithErrors >= Cardinality(FetchedWithoutKey)

\* The places, among the fetched tickets, of the tickets whose task has
\* ended: each is counted as closed, as not resolved or as an error.
C32_Settled ==
    {j \in 1..Len(ps.allTickets) :
        ps.allTickets[j].key \in
            Range(ps.closed) \cup Range(ps.notResolved) \cup Range(ps.errors)}

\* The places of the tickets whose task has started.
C32_Started ==
    C32_Settled
    \cup {ps.tasks[n].at : n \in 1..Len(ps.tasks)}
    \cup {j \in 1..Len(ps.allTickets) : ps.allTickets[j].key \in ps.closeCalls}

\* C32: the tickets are processed in consecutive groups of maxConcurrent:
\* the tasks in flight are those of one group, at most maxConcurrent of
\* them, in the order of the tickets; every task of the groups before has
\* ended, and no task of a later group has started.
C32_GroupsOneAfterAnother ==
    ps.pc = "group" =>
        /\ ps.i % maxConcurrent = 0
        /\ Len(ps.tasks) <= maxConcurrent
        /\ Len(ps.tasks) = Min({maxConcurrent, Len(ps.allTickets) - ps.i})
        /\ \A n \in 1..Len(ps.tasks) : ps.tasks[n].at = ps.i + n
        /\ 1..ps.i \subseteq C32_Settled
        /\ C32_Started \subseteq 1..(ps.i + maxConcurrent)

\* The second group is in flight, its task calling closeJiraTicket, after a
\* first group of maxConcurrent tasks that closed a ticket.
C32_Witness ==
    /\ ps.pc = "group"
    /\ ps.i = maxConcurrent
    /\ Len(ps.allTickets) > maxConcurrent
    /\ \E n \in 1..Len(ps.tasks) : ps.tasks[n].pc = "closing"
    /\ ps.closedCount >= 1

\* C38: in the result of every pass that returns, the four counts are
\* numbers and ticketsChecked = ticketsClosed + ticketsNotResolved +
\* ticketsWithErrors.
C38_CountsAddUp ==
    ps.pc = "done" =>
        /\ ps.result.ticketsWithErrors \in Nat
        /\ ps.result.ticketsChecked =
              ps.result.ticketsClosed + ps.result.ticketsNotResolved
                  + ps.result.ticketsWithErrors

\* C40: closeJiraTicket returns true for a ticket only if the tracker has
\* answered ok to a transition request for that ticket, and ticketsClosed
\* never exceeds the number of tickets for which the tracker accepted a
\* transition in the pass.
C40_ClosedOnlyWhenAccepted ==
    /\ Range(ps.closed) \subseteq ps.accepted
    /\ ps.closedCount <= Cardinality(ps.accepted)
    /\ \A t \in ps.accepted : ~trk[t].open
    /\ ps.pc = "done" => ps.result.ticketsClosed <= Cardinality(ps.accepted)

\* A pass has ended in which closeJiraTicket ran for two tickets: the
\* tracker accepted the transition of one, counted as closed, and not that
\* of the other, counted as an error.
C40_Witness ==
    /\ ps.pc = "done"
    /\ Cardinality(ps.closeCalls) = 2
    /\ Cardinality(ps.accepted) = 1
    /\ ps.result.ticketsClosed = 1
    /\ ps.result.ticketsWithErrors >= 1

-----------------------------------------------------------------------------
(* SpecPaging: the pagination loop of closeResolvedJiraTickets against a    *)
(* tracker that answers every page request as it likes; every request is   *)
(* answered in the end                                                     *)

\* The largest total a search response reports.
MaxReportedTotal == 3

\* The tickets of a search response: up to maxResults of them, numbered from
\* startAt on.
PageAnswers(startAt) ==
    UNION {[1..n -> {[key |-> 0, ticket |-> t] : t \in
                        {Ticket(k) : k \in SonarKeys}
                        \cup {[ref |-> 0, field |-> "blank", open |-> TRUE]}}]
           : n \in 0..maxResults}

Numbered(page, startAt) ==
    [j \in 1..Len(page) |-> [page[j] EXCEPT !.key = startAt + j]]

InitPaging ==
    /\ ps = PassIdle
    /\ trk = TrackerIdle
    /\ cj = CloseIdle
    /\ ck = CheckIdle
    /\ cr = CreateIdle
    /\ jp = PayloadIdle
    /\ fr = FetchIdle
    /\ sd = SonarIdle
    /\ lu = LookupIdle
    /\ ev = EntryIdle
    /\ rl = LimiterIdle
    /\ hd = HandlerIdle
    /\ pf = FetcherIdle

\* Lines 895-905: the loop sends the request of the page that starts at
\* startAt.
PagingRequest ==
    /\ ps.pc = "paging"
    /\ ps' = [ps EXCEPT !.pc = "fetching"]
    /\ UNCHANGED <<cj, ck, cr, trk, jp, fr, sd, lu, ev, rl, hd, pf>>

\* Lines 906-965: the request is answered, or fails.
PagingAnswer ==
    /\ ps.pc = "fetching"
    /\ \E r \in SteadyResults, body \in SearchBodies,
          page \in PageAnswers(ps.startAt), total \in 0..MaxReportedTotal :
          ps' = passFetchPage([ps EXCEPT !.pc = "paging"], r, body,
                              Numbered(page, ps.startAt), total)
    /\ UNCHANGED <<cj, ck, cr, trk, jp, fr, sd, lu, ev, rl, hd, pf>>

\* The loop is over; the rest of the pass is left out.
PagingOver ==
    /\ ps.pc \in {"checking", "done", "rejected"}
    /\ ps' = [ps EXCEPT !.pc = "over"]
    /\ UNCHANGED <<cj, ck, cr, trk, jp, fr, sd, lu, ev, rl, hd, pf>>

NextPaging == PassCall \/ PagingRequest \/ PagingAnswer \/ PagingOver

SpecPaging == InitPaging /\ [][NextPaging]_vars /\ WF_vars(NextPaging)

-----------------------------------------------------------------------------
(* Claims about the pagination loop *)

\* C37: the pagination loop ends, whatever the tracker answers: every pass
\* that enters the loop leaves it, for the resolution check, with its
\* result or with a rejection.
C37_PagingTerminates ==
    (ps.pc = "paging") ~> (ps.pc \in {"checking", "done", "rejected", "over"})

-----------------------------------------------------------------------------
(* SpecPayload: createJiraTicket builds the payload of one finding after   *)
(* another                                                                 *)

InitPayload ==
    /\ jp = PayloadIdle
    /\ cj = CloseIdle
    /\ ck = CheckIdle
    /\ cr = CreateIdle
    /\ trk = TrackerIdle
    /\ ps = PassIdle
    /\ fr = FetchIdle
    /\ sd = SonarIdle
    /\ lu = LookupIdle
    /\ ev = EntryIdle
    /\ rl = LimiterIdle
    /\ hd = HandlerIdle
    /\ pf = FetcherIdle

PayloadBuild ==
    /\ jp.pc = "idle"
    /\ \E itemType \in ItemTypes, severity \in Severities,
          vulnerabilityProbability \in Probabilities,
          n \in MessageLens, component \in Components :
          jp' = jiraPayload(itemType, severity, vulnerabilityProbability,
                            Repeat("a", n), component)
    /\ UNCHANGED <<cj, ck, cr, trk, ps, fr, sd, lu, ev, rl, hd, pf>>

\* The request is sent; the next finding follows.
PayloadSent ==
    /\ jp.pc = "built"
    /\ jp' = PayloadIdle
    /\ UNCHANGED <<cj, ck, cr, trk, ps, fr, sd, lu, ev, rl, hd, pf>>

NextPayload == PayloadBuild \/ PayloadSent

SpecPayload == InitPayload /\ [][NextPayload]_vars

-----------------------------------------------------------------------------
(* Claims about the ticket payload *)

\* C16: the priority of every ticket is Highest or High; it is Highest
\* exactly when the finding is an issue of severity BLOCKER or CRITICAL or
\* a hotspot of probability HIGH or MEDIUM, and High otherwise.
C16_PriorityMapping ==
    jp.pc = "built" =>
        /\ jp.priority \in {"Highest", "High"}
        /\ jp.priority = "Highest" <=>
              \/ jp.itemType = "issue" /\ jp.severity \in {"BLOCKER", "CRITICAL"}
              \/ jp.itemType = "hotspot"
                    /\ jp.vulnerabilityProbability \in {"HIGH", "MEDIUM"}

\* A hotspot of probability MEDIUM has priority Highest.
C16_Witness ==
    /\ jp.pc = "built"
    /\ jp.itemType = "hotspot"
    /\ jp.vulnerabilityProbability = "MEDIUM"
    /\ jp.priority = "Highest"

\* `${message} in ${fileName}` in full.
WholeSummary == jp.message \o <<" ", "i", "n", " ">> \o fileName(jp.component)

\* C17: the summary is '{message} in {filename}' when that has at most 254
\* characters, and otherwise its first 251 characters followed by '...':
\* its length is the smaller of the full length and 254.
C17_SummaryTruncation ==
    jp.pc = "built" =>
        /\ Len(WholeSummary) <= 254 => jp.summary = WholeSummary
        /\ Len(WholeSummary) > 254 =>
              /\ Len(jp.summary) = 254
              /\ \A j \in 1..251 : jp.summary[j] = WholeSummary[j]
              /\ \A j \in 252..254 : jp.summary[j] = "."
        /\ Len(jp.summary) = (IF Len(WholeSummary) < 254 THEN Len(WholeSummary) ELSE 254)

\* A message and a file name of 255 characters together: 254 are kept.
C17_Witness ==
    /\ jp.pc = "built"
    /\ Len(WholeSummary) = 255
    /\ Len(jp.summary) = 254
    /\ jp.summary[254] = "."
    /\ jp.summary[251] # "."

-----------------------------------------------------------------------------
(* SpecFetch: calls of fetchWithRetry, one after another *)

InitFetch ==
    /\ fr = FetchIdle
    /\ cj = CloseIdle
    /\ ck = CheckIdle
    /\ cr = CreateIdle
    /\ trk = TrackerIdle
    /\ ps = PassIdle
    /\ jp = PayloadIdle
    /\ sd = SonarIdle
    /\ lu = LookupIdle
    /\ ev = EntryIdle
    /\ rl = LimiterIdle
    /\ hd = HandlerIdle
    /\ pf = FetcherIdle

\* A call with maxRetries given (3 when the caller leaves it out) runs to
\* its end; outs[a] is what its attempt a meets.
FetchCall ==
    /\ fr.pc = "idle"
    /\ \E maxRetries \in 1..MaxRetriesArg, outs \in CallOutcomes :
          fr' = [pc |-> "done", maxRetries |-> maxRetries, outs |-> outs,
                 r |-> fetchWithRetryUpTo(outs, maxRetries)]
    /\ UNCHANGED <<cj, ck, cr, trk, ps, jp, sd, lu, ev, rl, hd, pf>>

FetchReturn ==
    /\ fr.pc = "done"
    /\ fr' = FetchIdle
    /\ UNCHANGED <<cj, ck, cr, trk, ps, jp, sd, lu, ev, rl, hd, pf>>

NextFetch == FetchCall \/ FetchReturn

SpecFetch == InitFetch /\ [][NextFetch]_vars

-----------------------------------------------------------------------------
(* Claims about fetchWithRetry *)

\* The attempts, among the first maxRetries, that meet an ok response.
OkAttempts == {a \in 1..fr.maxRetries : fr.outs[a] # NetErr /\ IsOk(fr.outs[a])}

\* C18: fetchWithRetry makes at most maxRetries attempts; it resolves with
\* the first ok response and makes no attempt after it; it never resolves
\* with a response that is not ok; after maxRetries failed attempts it
\* rejects, with 'HTTP <status>' when the last attempt got a response that
\* is not ok and with the network error when the last attempt threw.
C18_RetryContract ==
    fr.pc = "done" =>
        /\ fr.r.attempts <= fr.maxRetries
        /\ fr.r.kind \in {"response", "throw"}
        /\ fr.r.kind = "response" =>
              /\ IsOk(fr.r.status)
              /\ OkAttempts # {}
              /\ fr.r.attempts = Min(OkAttempts)
              /\ fr.r.status = fr.outs[fr.r.attempts]
        /\ OkAttempts # {} => fr.r.kind = "response"
        /\ fr.r.kind = "throw" =>
              /\ OkAttempts = {}
              /\ fr.r.attempts = fr.maxRetries
              /\ fr.r.status = fr.outs[fr.maxRetries]

\* Three attempts met 404: the call rejected with 'HTTP 404'.
C18_Witness ==
    /\ fr.pc = "done"
    /\ fr.maxRetries = 3
    /\ \A a \in 1..3 : fr.outs[a] = 404
    /\ fr.r.kind = "throw"
    /\ fr.r.status = 404
    /\ fr.r.attempts = 3

\* C34: between a failed attempt i (counted from 1) and the next attempt
\* fetchWithRetry waits 1000 * i ms, whether the attempt met a response
\* that is not ok or a network error, and it does not wait after the last
\* attempt: a call that made a attempts has waited 1000, ..., 1000 * (a - 1).
C34_WaitsAfterEveryFailure ==
    fr.pc = "done" =>
        fr.r.waits = [i \in 1..(fr.r.attempts - 1) |-> 1000 * i]

-----------------------------------------------------------------------------
(* SpecSonar: one run of fetchSonarData *)

InitSonar ==
    /\ \E config \in ConfigLists, fallbackKey \in {NoKey} \cup ProjectKeys :
          sd = [SonarIdle EXCEPT !.config = config, !.fallbackKey = fallbackKey]
    /\ cj = CloseIdle
    /\ ck = CheckIdle
    /\ cr = CreateIdle
    /\ trk = TrackerIdle
    /\ ps = PassIdle
    /\ jp = PayloadIdle
    /\ fr = FetchIdle
    /\ lu = LookupIdle
    /\ ev = EntryIdle
    /\ rl = LimiterIdle
    /\ hd = HandlerIdle
    /\ pf = FetcherIdle

SonarCall ==
    /\ sd.pc = "idle"
    /\ \E projectList \in ProvidedLists : sd' = fetchSonarStart(sd, projectList)
    /\ UNCHANGED <<cj, ck, cr, trk, ps, jp, fr, lu, ev, rl, hd, pf>>

SonarFetchIssues ==
    /\ sd.pc = "issues"
    /\ \E r \in SteadyResults, body \in FindingBodies : sd' = processIssues(sd, r, body)
    /\ UNCHANGED <<cj, ck, cr, trk, ps, jp, fr, lu, ev, rl, hd, pf>>

SonarFetchHotspots ==
    /\ sd.pc = "hotspots"
    /\ \E r \in SteadyResults, body \in FindingBodies : sd' = processHotspots(sd, r, body)
    /\ UNCHANGED <<cj, ck, cr, trk, ps, jp, fr, lu, ev, rl, hd, pf>>

NextSonar == SonarCall \/ SonarFetchIssues \/ SonarFetchHotspots

SpecSonar == InitSonar /\ [][NextSonar]_vars

-----------------------------------------------------------------------------
(* Claims about fetchSonarData *)

\* The findings of the fetches of one kind that succeeded, in fetch order.
FoundBy(what) ==
    LET hits == SelectSeq(sd.requests, LAMBDA q : q.what = what /\ q.found /\ ~q.failed)
    IN  [j \in 1..Len(hits) |-> [project |-> hits[j].project, what |-> what]]

\* C19: a failed fetch of one project's issues or hotspots (network error,
\* response that is not 2xx, malformed body) never aborts the run: it adds
\* no finding, every project of the input still has its issues and its
\* hotspots fetched, in order, and the run resolves with the findings of
\* the fetches that succeeded.
C19_ProjectFailureNeverAborts ==
    /\ sd.pc # "rejected"
    /\ (sd.pc = "done" /\ sd.queue # <<>>) =>
          /\ Len(sd.requests) = 2 * Len(sd.queue)
          /\ \A p \in 1..Len(sd.queue) :
                /\ sd.requests[2 * p - 1].project = sd.queue[p]
                /\ sd.requests[2 * p - 1].what = "issues"
                /\ sd.requests[2 * p].project = sd.queue[p]
                /\ sd.requests[2 * p].what = "hotspots"
          /\ sd.result.issues = FoundBy("issues")
          /\ sd.result.hotspots = FoundBy("hotspots")

\* The issues fetch of the first of two projects failed; the run resolved
\* with the issue of the second.
C19_Witness ==
    /\ sd.pc = "done"
    /\ Len(sd.queue) = 2
    /\ sd.requests[1].failed
    /\ sd.requests[3].found
    /\ sd.result.issues = <<[project |-> sd.queue[2], what |-> "issues"]>>

\* The project keys the run has to fetch, by the order of choice of C20.
ChosenKeys ==
    IF Len(sd.projectList) > 0 THEN KeysOf(sd.projectList)
    ELSE IF \E j \in 1..Len(sd.config) : sd.config[j].isChecked
         THEN KeysOf(SelectSeq(sd.config, LAMBDA project : project.isChecked))
         ELSE IF sd.fallbackKey # NoKey THEN <<sd.fallbackKey>> ELSE <<>>

\* C20: fetchSonarData fetches the projects of a non-empty provided list
\* as given; without one, the configuration's projects with isChecked;
\* when there is none, the fallback project key when it is configured;
\* and with no project enabled and no fallback key it returns
\* {issues: [], hotspots: []} without any request to the scanner.
C20_ProjectChoice ==
    sd.pc # "idle" =>
        /\ sd.queue = ChosenKeys
        /\ \A a \in 1..Len(sd.requests) :
              a <= 2 * Len(ChosenKeys) /\ sd.requests[a].project = ChosenKeys[(a + 1) \div 2]
        /\ ChosenKeys = <<>> =>
              /\ sd.pc = "done"
              /\ sd.requests = <<>>
              /\ sd.result = [issues |-> <<>>, hotspots |-> <<>>]

\* No list was given, the configuration has projects but none enabled and
\* no fallback key is set: the run returned empty lists without a request.
C20_Witness ==
    /\ sd.pc = "done"
    /\ sd.projectList = <<>>
    /\ sd.config # <<>>
    /\ sd.fallbackKey = NoKey
    /\ sd.requests = <<>>
    /\ sd.result = [issues |-> <<>>, hotspots |-> <<>>]

-----------------------------------------------------------------------------
(* SpecLookup: calls of lookupJiraUsers in one process, one after another *)

InitLookup ==
    /\ \E config \in AssigneeLists : lu = [LookupIdle EXCEPT !.config = config]
    /\ cj = CloseIdle
    /\ ck = CheckIdle
    /\ cr = CreateIdle
    /\ trk = TrackerIdle
    /\ ps = PassIdle
    /\ jp = PayloadIdle
    /\ fr = FetchIdle
    /\ sd = SonarIdle
    /\ ev = EntryIdle
    /\ rl = LimiterIdle
    /\ hd = HandlerIdle
    /\ pf = FetcherIdle

LookupCall ==
    /\ lu.pc = "idle"
    /\ lu' = lookupStart(lu)
    /\ UNCHANGED <<cj, ck, cr, trk, ps, jp, fr, sd, ev, rl, hd, pf>>

LookupSearch ==
    /\ lu.pc = "search"
    /\ \E r \in FetchResults, body \in UserBodies : lu' = lookupEmail(lu, r, body)
    /\ UNCHANGED <<cj, ck, cr, trk, ps, jp, fr, sd, ev, rl, hd, pf>>

\* The call is over; the cache stays.
LookupReturn ==
    /\ lu.pc \in {"done", "threw"}
    /\ lu' = [lu EXCEPT !.pc = "idle"]
    /\ UNCHANGED <<cj, ck, cr, trk, ps, jp, fr, sd, ev, rl, hd, pf>>

NextLookup == LookupCall \/ LookupSearch \/ LookupReturn

SpecLookup == InitLookup /\ [][NextLookup]_vars

-----------------------------------------------------------------------------
(* Claims about lookupJiraUsers *)

C24_CacheGrowsOnly ==
    [][/\ \A e \in DOMAIN lu.cache :
             e \in DOMAIN lu'.cache /\ lu'.cache[e] = lu.cache[e]
       /\ ~lu'.last.cachedBefore
       /\ \A i, j \in 1..Len(lu'.searched) :
             lu'.searched[i] = lu'.searched[j] => i = j]_vars

\* A later call that finds both configured emails cached and searches none.
C24_Witness ==
    /\ lu.pc = "done"
    /\ Len(lu.uniqueEmails) = 2
    /\ DOMAIN lu.cache = Emails
    /\ lu.searched = <<>>

-----------------------------------------------------------------------------
(* SpecEntry: calls of the three operations, one after another *)

InitEntry ==
    /\ ev = EntryIdle
    /\ cj = CloseIdle
    /\ ck = CheckIdle
    /\ cr = CreateIdle
    /\ trk = TrackerIdle
    /\ ps = PassIdle
    /\ jp = PayloadIdle
    /\ fr = FetchIdle
    /\ sd = SonarIdle
    /\ lu = LookupIdle
    /\ rl = LimiterIdle
    /\ hd = HandlerIdle
    /\ pf = FetcherIdle

EntryCall ==
    /\ ev.pc = "idle"
    /\ \E op \in Operations, envVars \in EnvVarSets, secrets \in BOOLEAN,
          sonarData \in SonarDataShapes, config \in AssigneeLists :
          ev' = entryStart(ev, op, envVars, secrets, sonarData, config)
    /\ UNCHANGED <<cj, ck, cr, trk, ps, jp, fr, sd, lu, rl, hd, pf>>

EntryLookup ==
    /\ ev.pc = "lookup"
    /\ ev' = entryLookup(ev)
    /\ UNCHANGED <<cj, ck, cr, trk, ps, jp, fr, sd, lu, rl, hd, pf>>

EntryRequest ==
    /\ ev.pc = "body"
    /\ Len(ev.requests) < MaxEntryRequests + Len(uniqueEmails(ev.config))
    /\ \E kind \in RequestKinds(ev.op),
          adds \in IF ev.op = "createJiraTickets" THEN {"created", "existing", "none"}
                   ELSE {"none"} :
          ev' = entryRequest(ev, kind, adds)
    /\ UNCHANGED <<cj, ck, cr, trk, ps, jp, fr, sd, lu, rl, hd, pf>>

EntryReturn ==
    /\ ev.pc = "body"
    /\ ev' = entryReturn(ev)
    /\ UNCHANGED <<cj, ck, cr, trk, ps, jp, fr, sd, lu, rl, hd, pf>>

EntrySettled ==
    /\ ev.pc = "settled"
    /\ ev' = EntryIdle
    /\ UNCHANGED <<cj, ck, cr, trk, ps, jp, fr, sd, lu, rl, hd, pf>>

NextEntry == EntryCall \/ EntryLookup \/ EntryRequest \/ EntryReturn \/ EntrySettled

SpecEntry == InitEntry /\ [][NextEntry]_vars

-----------------------------------------------------------------------------
(* Claims about the entry and the top-level handler *)

\* The names of the message after its heading, separators left out.
NamesIn(message) ==
    SelectSeq(Tail(message), LAMBDA piece : piece # ", ")

\* C21: with a required configuration value missing, each of the three
\* operations rejects before it sends any request, and the message lists
\* every missing name, in the order of the required list.
C21_FailFastListsMissing ==
    (ev.pc # "idle" /\ ev.secrets /\ \E v \in Range(requiredEnvVars) : ev.envVars[v] # "set")
        => /\ ev.outcome = "rejected"
           /\ ev.requests = <<>>
           /\ ev.message[1] = "Missing required environment variables: "
           /\ NamesIn(ev.message)
                 = SelectSeq(requiredEnvVars, LAMBDA v : ev.envVars[v] # "set")
           /\ Len(ev.message) = 2 * Len(NamesIn(ev.message))

\* createJiraTickets rejected with SONARQUBE_TOKEN and JIRA_API_TOKEN missing.
C21_Witness ==
    /\ ev.op = "createJiraTickets"
    /\ ev.outcome = "rejected"
    /\ ev.message = <<"Missing required environment variables: ",
                      "SONARQUBE_TOKEN", ", ", "JIRA_API_TOKEN">>

\* C22: with the configuration valid and sonarData well-formed,
\* createJiraTickets never rejects; an error that reaches its top-level
\* handler gives a payload {created, existing, error}.
C22_CreateNeverRejects ==
    (/\ ev.op = "createJiraTickets"
     /\ ev.pc = "settled"
     /\ ev.secrets
     /\ \A v \in Range(requiredEnvVars) : ev.envVars[v] = "set"
     /\ ev.sonarData = "wellformed")
        => ev.outcome = "resolved"

-----------------------------------------------------------------------------
(* SpecSecrets: calls of getEnvironmentVariables and of clearSecretsCache   *)
(* in one process, one after another                                       *)

InitSecrets ==
    /\ \E aws \in BOOLEAN : ev = [SecretsIdle EXCEPT !.aws = aws]
    /\ cj = CloseIdle
    /\ ck = CheckIdle
    /\ cr = CreateIdle
    /\ trk = TrackerIdle
    /\ ps = PassIdle
    /\ jp = PayloadIdle
    /\ fr = FetchIdle
    /\ sd = SonarIdle
    /\ lu = LookupIdle
    /\ rl = LimiterIdle
    /\ hd = HandlerIdle
    /\ pf = FetcherIdle

SecretsCall ==
    /\ ev.pc = "idle"
    /\ ev.calls < MaxSecretCalls
    /\ ev' = getEnvironmentVariables([ev EXCEPT !.calls = @ + 1])
    /\ UNCHANGED <<cj, ck, cr, trk, ps, jp, fr, sd, lu, rl, hd, pf>>

SecretsAnswered ==
    /\ ev.pc = "querying"
    /\ \E answer \in ManagerAnswers, v \in SecretVersions :
          ev' = getSecretsAnswered(ev, answer, v)
    /\ UNCHANGED <<cj, ck, cr, trk, ps, jp, fr, sd, lu, rl, hd, pf>>

\* The caller has the value, or the error.
SecretsSettled ==
    /\ ev.pc = "settled"
    /\ ev' = [ev EXCEPT !.pc = "idle"]
    /\ UNCHANGED <<cj, ck, cr, trk, ps, jp, fr, sd, lu, rl, hd, pf>>

SecretsClear ==
    /\ ev.pc = "idle"
    /\ ev' = clearSecretsCache(ev)
    /\ UNCHANGED <<cj, ck, cr, trk, ps, jp, fr, sd, lu, rl, hd, pf>>

NextSecrets == SecretsCall \/ SecretsAnswered \/ SecretsSettled \/ SecretsClear

SpecSecrets == InitSecrets /\ [][NextSecrets]_vars

-----------------------------------------------------------------------------
(* Claims about the secrets cache *)

\* C36: in AWS mode the manager is queried only when the cache is empty: a
\* call made while a retrieved value is kept resolves with that value
\* without a query; a call made when none is kept (at first, after
\* clearSecretsCache, after a failed retrieval) queries; a retrieval that
\* fails leaves the cache empty and the call rejects; one that succeeds
\* fills the cache with what the call resolves with.
C36_QueriedOnlyWhenCacheEmpty ==
    ev.aws =>
        /\ ev.pc = "querying" => ev.secretsCache = NoSecrets /\ ev.before = NoSecrets
        /\ ev.pc = "settled" =>
              /\ ev.queried <=> ev.before = NoSecrets
              /\ ev.before # NoSecrets =>
                    /\ ev.outcome = "resolved"
                    /\ ev.value = ev.before
                    /\ ev.secretsCache = ev.before
              /\ ev.outcome = "rejected" =>
                    /\ ev.queried
                    /\ ev.secretsCache = NoSecrets
                    /\ ev.message \in ManagerAnswers \ {"secret"}
              /\ (ev.queried /\ ev.outcome = "resolved") =>
                    ev.value \in SecretVersions /\ ev.secretsCache = ev.value

\* A call resolved from the cache, after a retrieval, a clearSecretsCache
\* and a second retrieval: two queries so far.
C36_Witness ==
    /\ ev.aws
    /\ ev.pc = "settled"
    /\ ~ev.queried
    /\ ev.outcome = "resolved"
    /\ ev.value = ev.secretsCache
    /\ ev.value \in SecretVersions
    /\ ev.queries = 2

-----------------------------------------------------------------------------
(* SpecLimiter: passes through one rate limiter and the requests after them *)

InitLimiter ==
    /\ rl = LimiterIdle
    /\ cj = CloseIdle
    /\ ck = CheckIdle
    /\ cr = CreateIdle
    /\ trk = TrackerIdle
    /\ ps = PassIdle
    /\ jp = PayloadIdle
    /\ fr = FetchIdle
    /\ sd = SonarIdle
    /\ lu = LookupIdle
    /\ ev = EntryIdle
    /\ hd = HandlerIdle
    /\ pf = FetcherIdle

LimiterCall ==
    /\ rl.pc = "idle"
    /\ \E call \in LimitedCalls, span \in Latencies :
          rl' = [Elapse(rl, span) EXCEPT !.pc = "step", !.call = call, !.i = 1]
    /\ UNCHANGED <<cj, ck, cr, trk, ps, jp, fr, sd, lu, ev, hd, pf>>

LimiterWait ==
    /\ rl.pc = "step"
    /\ CallSteps(rl.call)[rl.i] = "wait"
    /\ rl' = rateLimiterWait(rl)
    /\ UNCHANGED <<cj, ck, cr, trk, ps, jp, fr, sd, lu, ev, hd, pf>>

LimiterRequest ==
    /\ rl.pc = "step"
    /\ CallSteps(rl.call)[rl.i] # "wait"
    /\ rl' = requestStart(rl)
    /\ UNCHANGED <<cj, ck, cr, trk, ps, jp, fr, sd, lu, ev, hd, pf>>

LimiterAnswer ==
    /\ rl.pc = "inflight"
    /\ \E span \in Latencies, ok \in BOOLEAN : rl' = requestAnswered(rl, span, ok)
    /\ UNCHANGED <<cj, ck, cr, trk, ps, jp, fr, sd, lu, ev, hd, pf>>

LimiterReturn ==
    /\ rl.pc = "done"
    /\ rl' = [rl EXCEPT !.pc = "idle"]
    /\ UNCHANGED <<cj, ck, cr, trk, ps, jp, fr, sd, lu, ev, hd, pf>>

NextLimiter ==
    LimiterCall \/ LimiterWait \/ LimiterRequest \/ LimiterAnswer \/ LimiterReturn

SpecLimiter == InitLimiter /\ [][NextLimiter]_vars

-----------------------------------------------------------------------------
(* Claims about the rate limiter *)

\* C25: every tracker request, a retried attempt included, has a pass
\* through the rate limiter of its own before it, and two requests in a row
\* start at least 100 ms apart.
C25_EveryRequestRateLimited ==
    rl.requests > 0
        => /\ rl.lastOwnPass
           /\ rl.requests > 1 => rl.lastGap >= minInterval

-----------------------------------------------------------------------------
(* SpecWaiters: the tasks of one group after another call rateLimiter.wait() *)

InitWaiters ==
    /\ rl = WaitersIdle
    /\ cj = CloseIdle
    /\ ck = CheckIdle
    /\ cr = CreateIdle
    /\ trk = TrackerIdle
    /\ ps = PassIdle
    /\ jp = PayloadIdle
    /\ fr = FetchIdle
    /\ sd = SonarIdle
    /\ lu = LookupIdle
    /\ ev = EntryIdle
    /\ hd = HandlerIdle
    /\ pf = FetcherIdle

\* A group starts, span milliseconds after the group before has ended.
WaitersGroupStart ==
    /\ rl.pc = "idle"
    /\ \E n \in 1..MaxWaiters, span \in Latencies, took \in Latencies :
          rl' = waitersStart([waitersElapse(rl, span) EXCEPT !.pc = "group",
                                                            !.returns = 0], n, took)
    /\ UNCHANGED <<cj, ck, cr, trk, ps, jp, fr, sd, lu, ev, hd, pf>>

\* The timers of a group are set in one turn for delays that do not
\* decrease, so they fire in the order of the tasks.
WaitersTimerFires ==
    /\ rl.pc = "group"
    /\ Due(rl) \cap Sleeping(rl) # {}
    /\ \E lag \in TimerLags, took \in Latencies :
          rl' = waitTimerFires(rl, Min(Due(rl) \cap Sleeping(rl)), lag, took)
    /\ UNCHANGED <<cj, ck, cr, trk, ps, jp, fr, sd, lu, ev, hd, pf>>

WaitersCloseEnds ==
    /\ rl.pc = "group"
    /\ \E n \in Due(rl) \cap Closing(rl) : rl' = waiterCloseEnds(rl, n)
    /\ UNCHANGED <<cj, ck, cr, trk, ps, jp, fr, sd, lu, ev, hd, pf>>

\* Promise.all of the group has settled.
WaitersGroupEnd ==
    /\ rl.pc = "group"
    /\ Sleeping(rl) \cup Closing(rl) = {}
    /\ rl' = [rl EXCEPT !.pc = "idle", !.tasks = <<>>]
    /\ UNCHANGED <<cj, ck, cr, trk, ps, jp, fr, sd, lu, ev, hd, pf>>

NextWaiters ==
    \/ WaitersGroupStart
    \/ WaitersTimerFires
    \/ WaitersCloseEnds
    \/ WaitersGroupEnd

SpecWaiters == InitWaiters /\ [][NextWaiters]_vars

-----------------------------------------------------------------------------
(* Claims about concurrent passes through the rate limiter *)

\* C33: when the tasks of a group call rateLimiter.wait() concurrently, no
\* two of them return from wait() less than minInterval apart.
C33_ReturnsSpacedApart ==
    rl.returns >= 2 => rl.lastGap >= minInterval

-----------------------------------------------------------------------------
(* SpecHandler: invocations of sonarToJiraHandler, one after another *)

InitHandler ==
    /\ hd = HandlerIdle
    /\ cj = CloseIdle
    /\ ck = CheckIdle
    /\ cr = CreateIdle
    /\ trk = TrackerIdle
    /\ ps = PassIdle
    /\ jp = PayloadIdle
    /\ fr = FetchIdle
    /\ sd = SonarIdle
    /\ lu = LookupIdle
    /\ ev = EntryIdle
    /\ rl = LimiterIdle
    /\ pf = FetcherIdle

HandlerCall ==
    /\ hd.pc = "idle"
    /\ \E envOk \in BOOLEAN, answer \in FetcherAnswers, projects \in FetchedLists :
          hd' = handlerStart(HandlerIdle, envOk, answer, projects)
    /\ UNCHANGED <<cj, ck, cr, trk, ps, jp, fr, sd, lu, ev, rl, pf>>

HandlerFetch ==
    /\ hd.pc = "fetch"
    /\ \E resolved \in BOOLEAN : hd' = handlerFetched(hd, resolved)
    /\ UNCHANGED <<cj, ck, cr, trk, ps, jp, fr, sd, lu, ev, rl, pf>>

HandlerCreate ==
    /\ hd.pc = "create"
    /\ \E resolved \in BOOLEAN, created, existing \in 0..MaxBatchTickets :
          hd' = handlerCreated(hd, resolved, created, existing)
    /\ UNCHANGED <<cj, ck, cr, trk, ps, jp, fr, sd, lu, ev, rl, pf>>

HandlerBatchFetch ==
    /\ hd.pc = "batchFetch"
    /\ \E resolved \in BOOLEAN : hd' = batchFetched(hd, resolved)
    /\ UNCHANGED <<cj, ck, cr, trk, ps, jp, fr, sd, lu, ev, rl, pf>>

HandlerBatchCreate ==
    /\ hd.pc = "batchCreate"
    /\ \E resolved \in BOOLEAN, created, existing \in 0..MaxBatchTickets :
          hd' = batchCreated(hd, resolved, created, existing)
    /\ UNCHANGED <<cj, ck, cr, trk, ps, jp, fr, sd, lu, ev, rl, pf>>

HandlerReturn ==
    /\ hd.pc = "done"
    /\ hd' = HandlerIdle
    /\ UNCHANGED <<cj, ck, cr, trk, ps, jp, fr, sd, lu, ev, rl, pf>>

NextHandler ==
    \/ HandlerCall
    \/ HandlerFetch
    \/ HandlerCreate
    \/ HandlerBatchFetch
    \/ HandlerBatchCreate
    \/ HandlerReturn

SpecHandler == InitHandler /\ [][NextHandler]_vars

-----------------------------------------------------------------------------
(* Claims about sonarToJiraHandler *)

\* Sum of field f over the batches of the log whose creation resolved.
RECURSIVE SumResolved(_, _)
SumResolved(log, f) ==
    IF log = <<>> THEN 0
    ELSE (IF log[1].create = "resolved" THEN f[log[1]] ELSE 0)
             + SumResolved(Tail(log), f)

CreatedOf == [b \in Range(hd.log) |-> b.created]

ExistingOf == [b \in Range(hd.log) |-> b.existing]

\* C26: a list of more than 10 projects is processed in consecutive batches
\* of 5 in list order, every project in exactly one batch, one
\* fetchSonarData call for every batch and one createJiraTickets call for
\* every batch whose fetch resolved; a batch that fails does not stop the
\* later ones, and the response has status 200 and the totals of the
\* batches that succeeded.
C26_BatchesAllProcessed ==
    (hd.pc = "done" /\ Len(hd.projectList) > batchThreshold)
        => /\ hd.mode = "batched"
           /\ Len(hd.log) = totalBatches(hd.projectList)
           /\ \A b \in 1..Len(hd.log) :
                 /\ hd.log[b].batch =
                       [j \in 1..Min({batchSize, Len(hd.projectList) - batchSize * (b - 1)})
                           |-> hd.projectList[batchSize * (b - 1) + j]]
                 /\ hd.log[b].create # "none" <=> hd.log[b].fetch
           /\ hd.response.statusCode = 200
           /\ hd.response.totalCreated = SumResolved(hd.log, CreatedOf)
           /\ hd.response.totalExisting = SumResolved(hd.log, ExistingOf)

\* Eleven projects: the first batch fails in its fetch, the second in its
\* creation, and the third, of one project, succeeds and is counted.
C26_Witness ==
    /\ hd.pc = "done"
    /\ Len(hd.projectList) = 11
    /\ Len(hd.log) = 3
    /\ ~hd.log[1].fetch
    /\ hd.log[2].create = "rejected"
    /\ hd.log[3].batch = <<11>>
    /\ hd.log[3].create = "resolved"
    /\ hd.response.totalCreated = 1

-----------------------------------------------------------------------------
(* SpecFetcher: invocations of projectFetcherHandler *)

InitFetcher ==
    /\ \E config \in FetcherConfigs, envKey \in {NoKey} \cup ProjectKeys :
          pf = [FetcherIdle EXCEPT !.config = config, !.envKey = envKey]
    /\ cj = CloseIdle
    /\ ck = CheckIdle
    /\ cr = CreateIdle
    /\ trk = TrackerIdle
    /\ ps = PassIdle
    /\ jp = PayloadIdle
    /\ fr = FetchIdle
    /\ sd = SonarIdle
    /\ lu = LookupIdle
    /\ ev = EntryIdle
    /\ rl = LimiterIdle
    /\ hd = HandlerIdle

FetcherCall ==
    /\ pf.pc = "idle"
    /\ pf' = [pf EXCEPT !.pc = "done",
                        !.response = projectFetcherHandler(pf.config, pf.envKey)]
    /\ UNCHANGED <<cj, ck, cr, trk, ps, jp, fr, sd, lu, ev, rl, hd>>

FetcherReturn ==
    /\ pf.pc = "done"
    /\ pf' = [pf EXCEPT !.pc = "idle", !.response = NoAnswer]
    /\ UNCHANGED <<cj, ck, cr, trk, ps, jp, fr, sd, lu, ev, rl, hd>>

NextFetcher == FetcherCall \/ FetcherReturn

SpecFetcher == InitFetcher /\ [][NextFetcher]_vars

-----------------------------------------------------------------------------
(* Claims about projectFetcherHandler *)

\* The places of the configured list that hold a checked project with a key.
EnabledPlaces ==
    {j \in 1..Len(pf.config.projects) :
        pf.config.projects[j].isChecked /\ pf.config.projects[j].key # NoKey}

\* The j-th smallest element of a set of numbers.
RECURSIVE Nth(_, _)
Nth(S, j) == IF j = 1 THEN Min(S) ELSE Nth(S \ {Min(S)}, j - 1)

\* C27: the handler answers 200 with exactly the configured projects that
\* are checked and have a key, in the order of the configuration, and
\* fallback false; with none of them, the one fallback project and fallback
\* true when SONARQUBE_PROJECT_KEY is set, and else an empty list and
\* fallback false; it answers 500 with an empty list when reading the
\* configuration throws.
C27_FetcherResponse ==
    pf.pc = "done"
        => IF configThrows(pf.config)
           THEN pf.response.statusCode = 500 /\ pf.response.projects = <<>>
           ELSE /\ pf.response.statusCode = 200
                /\ IF EnabledPlaces # {}
                   THEN /\ pf.response.fallback = "false"
                        /\ Len(pf.response.projects) = Cardinality(EnabledPlaces)
                        /\ \A j \in 1..Len(pf.response.projects) :
                              pf.response.projects[j]
                                  = pf.config.projects[Nth(EnabledPlaces, j)]
                   ELSE IF pf.envKey # NoKey
                        THEN /\ pf.response.fallback = "true"
                             /\ Len(pf.response.projects) = 1
                             /\ pf.response.projects[1].key = pf.envKey
                             /\ pf.response.projects[1].isChecked
                        ELSE /\ pf.response.fallback = "false"
                             /\ pf.response.projects = <<>>

\* A checked project without a key is left out and the checked one after it
\* is returned, whatever SONARQUBE_PROJECT_KEY holds.
C27_Witness ==
    /\ pf.pc = "done"
    /\ Len(pf.config.projects) = 2
    /\ pf.config.projects[1].isChecked
    /\ pf.config.projects[1].key = NoKey
    /\ pf.config.projects[1].shape = "object"
    /\ pf.envKey # NoKey
    /\ Len(pf.response.projects) = 1
    /\ pf.response.projects[1] = pf.config.projects[2]

====
